---- MODULE Spec2Model ----
(***************************************************************************)
(* Ledger and CPM reconciliation engine of gestao-cpm-agno                 *)
(* (src/app/tools/db_toolkit.py, class DatabaseManager).                   *)
(*                                                                         *)
(* The state is the content of the relational store the toolkit works on   *)
(* (tables transactions, transaction_batches, subscriptions and            *)
(* cpm_checkpoints) plus what the caller holds: the transaction ids that   *)
(* delete_last_transaction has shown, and the outcome of the last call.    *)
(*                                                                         *)
(* Units are integers.  Money is an integer count of thousandths of a      *)
(* centavo, so that (units / 1000) * cpm, with cpm in centavos per         *)
(* thousand units, is the exact product units * cpm.                       *)
(***************************************************************************)
EXTENDS Integers, FiniteSets, Sequences, TLC

VARIABLES
    transactions,          \* rows of table transactions
    transaction_batches,   \* rows of table transaction_batches
    subscriptions,         \* rows of table subscriptions
    cpm_checkpoints,       \* rows of table cpm_checkpoints
    clock,                 \* the last created_at the store has stamped
    tokens,                \* the transaction id the caller holds from its latest preview
    result,                \* outcome of the last completed call (sequential calls)
    pc,                    \* per concurrent caller: position inside its call
    req,                   \* per concurrent caller: the call and its arguments
    pend,                  \* per concurrent caller: rows inserted, not yet committed
    ret,                   \* per concurrent caller: outcome of its last call
    row_lock,              \* holder of the FOR UPDATE lock per subscription id
    db_pool                \* Database._pool, and how many pools were ever created

vars == <<transactions, transaction_batches, subscriptions, cpm_checkpoints,
          clock, tokens, result, pc, req, pend, ret, row_lock, db_pool>>

store == <<transactions, transaction_batches, subscriptions, cpm_checkpoints>>

procvars == <<pc, req, pend, ret, row_lock, db_pool>>

(***************************************************************************)
(* Bounds of the model.                                                    *)
(***************************************************************************)
MaxClock == 4        \* the last created_at the store stamps in one run (it starts at 1)

Procs == {1, 2}      \* concurrent callers (independent webhook requests)

NULL == 0

Accounts == {1}
Programs == {1, 2}
AccountNames == {1, 9}       \* 9 names no account
ProgramNames == {1, 9}       \* the program entries are recorded in; 9 names none
OrigemNames  == {2, 9}       \* the program transfers come from

\* <<milhas, bonus_percent, custo_total>> of a simple or intra-club entry:
\* 2 units for 0.03, and -1 unit with a 50% bonus at no cost.
SimpleIn == {<<2, 0, 3000>>, <<-1, 50, 0>>}

\* data_transacao: omitted, or unparseable.
DateIn == {"", "xx"}

\* milhas_do_mes: omitted (0), 11, or -5.
MesIn == {0, 11, -5}

\* <<milhas_base, bonus_percent, lote_organico_qtd, lote_organico_cpm,
\*   lote_pago_qtd, lote_pago_custo_total>> of a transfer: the organic lot at
\* 10.00 per thousand, the paid lot for 0.03.  The third is 100 units at 15%.
TransferIn ==
    {<<2, 50, 0, 1000, 2, 3000>>, <<2, 50, 1, 1000, 1, 3000>>,
     <<100, 15, 40, 1000, 60, 3000>>,
     <<0, 50, 0, 1000, 0, 3000>>, <<2, -50, 1, 1000, 1, 3000>>,
     <<2, 50, -1, 1000, 2, 3000>>, <<2, 50, 1, 1000, 2, 3000>>}

\* <<valor_total_ciclo, milhas_garantidas_ciclo, data_renovacao, data_inicio,
\*   is_mensal>> of a contract.
SubscriptionIn ==
    {<<24000, 12, "07/02/2027", "", FALSE>>, <<2000, 1, "07/02/2027", "hoje", TRUE>>,
     <<24000, 12, "ontem", "", FALSE>>, <<0, 12, "xx", "", FALSE>>}

\* <<tipo, periodo_referencia>> of a checkpoint confirmation.
CheckpointIn ==
    {<<"MENSAL", "2026-10">>, <<"MENSAL", "">>, <<"MENSAL", "2026-12">>,
     <<"MENSAL", "2026-13">>, <<"MANUAL", "">>, <<"MANUAL", "2026-10">>, <<"AUTO", "">>}

\* <<tipo_ajuste, valor>> of an adjustment: cost -0.03, units +2, and the
\* rejected ones.
AdjustmentIn ==
    {<<"CUSTO", -3000>>, <<"MILHAS", 2>>, <<"MILHAS", -2>>, <<"CUSTO", 0>>, <<"X", 2>>}

\* The contract the store may hold when the toolkit attaches to it:
\* <<milhas_garantidas_ciclo, cpm_fixo>>, 12 units at 20.00 per thousand.
ContratoIn == {<<12, 2000>>}

\* date.today() is in November 2026.
hoje_ref == <<2026, 11>>

(***************************************************************************)
(* Helpers of the toolkit.                                                 *)
(***************************************************************************)
\* _get_account_id: the account row the identifier names, or None.
get_account_id(nome_conta) == IF nome_conta \in Accounts THEN nome_conta ELSE NULL

\* _get_program_id: the program row the name matches, or None.
get_program_id(nome_programa) == IF nome_programa \in Programs THEN nome_programa ELSE NULL

\* Python's int() on a quotient n/d with d > 0: truncation toward zero.
py_int(n, d) == IF n >= 0 THEN n \div d ELSE -((-n) \div d)

\* floor(n/d) for d > 0.
floor_div(n, d) == n \div d

\* Whether the binary64 product milhas_base * (1 + bonus / 100) lies below the
\* exact product: 1 + 15/100 is the double 1.15 (below 1.15), and 100 times it
\* rounds to 114.99999999999999.  For the other amounts of the model the
\* double product is the exact one.
float_below_exact(milhas_base, bonus) == milhas_base = 100 /\ bonus = 15

\* int(milhas_base * (1 + bonus / 100)), the product taken in binary64.
total_milhas_of(milhas_base, bonus) ==
    IF float_below_exact(milhas_base, bonus)
    THEN py_int(milhas_base * (100 + bonus), 100) - 1
    ELSE py_int(milhas_base * (100 + bonus), 100)

RECURSIVE SumMilhas(_)
\* SUM(milhas_creditadas) over a set of transaction rows (COALESCE ... 0).
SumMilhas(S) ==
    IF S = {} THEN 0
    ELSE LET x == CHOOSE y \in S : TRUE IN x.milhas_creditadas + SumMilhas(S \ {x})

RECURSIVE SumCusto(_)
\* SUM(custo_total) over a set of transaction rows (COALESCE ... 0).
SumCusto(S) ==
    IF S = {} THEN 0
    ELSE LET x == CHOOSE y \in S : TRUE IN x.custo_total + SumCusto(S \ {x})

RECURSIVE SumLotes(_)
\* SUM(milhas_qtd) over a set of transaction_batches rows.
SumLotes(S) ==
    IF S = {} THEN 0
    ELSE LET x == CHOOSE y \in S : TRUE IN x.milhas_qtd + SumLotes(S \ {x})

\* The row of S with the greatest created_at (ORDER BY created_at DESC LIMIT 1).
Latest(S) == CHOOSE x \in S : \A y \in S : y.created_at <= x.created_at

\* created_at the store stamps on the next inserted row: every row is stamped
\* at its INSERT, later than every row stamped before it.
next_created_at == clock + 1

\* Whether the run may still insert n rows.
CanInsert(n) == clock + n <= MaxClock

\* parse_date_natural(texto): the date as a day count from today, in a set;
\* the empty set is None (an empty or unreadable text).
parse_date_natural(texto) ==
    CASE texto = "hoje"       -> {0}
      [] texto = "ontem"      -> {-1}
      [] texto = "07/02/2027" -> {97}
      [] OTHER                -> {}

\* data_tx = parse_date_natural(data_transacao) if data_transacao else date.today()
data_tx_of(data_transacao) ==
    IF data_transacao # "" THEN parse_date_natural(data_transacao) ELSE {0}

\* map(int, periodo_referencia.split("-")): <<ano, mes>>.
split_periodo(periodo) ==
    CASE periodo = "2026-10" -> <<2026, 10>>
      [] periodo = "2026-09" -> <<2026, 9>>
      [] periodo = "2026-12" -> <<2026, 12>>
      [] periodo = "2026-13" -> <<2026, 13>>
      [] OTHER -> <<0, 0>>

\* (ano, mes) > (hoje_ref.year, hoje_ref.month)
periodo_futuro(p) == p[1] > hoje_ref[1] \/ (p[1] = hoje_ref[1] /\ p[2] > hoje_ref[2])

(***************************************************************************)
(* Rows.                                                                   *)
(***************************************************************************)
\* A row of transactions.  The id is the store's (gen_random_uuid); the model
\* numbers rows by their created_at, which is unique per row.
TxRow(acc_id, modo, orig_id, prog_id, milhas_base, bonus, total_milhas, custo, sub_id, ts) ==
    [id |-> ts, account_id |-> acc_id, modo_aquisicao |-> modo,
     origem_id |-> orig_id, companhia_referencia_id |-> prog_id,
     milhas_base |-> milhas_base, bonus_percent |-> bonus,
     milhas_creditadas |-> total_milhas, custo_total |-> custo,
     subscription_id |-> sub_id, created_at |-> ts]

\* A row of transaction_batches.
BatchRow(tx_id, tipo, milhas_qtd, custo_parcial, ordem) ==
    [transaction_id |-> tx_id, tipo |-> tipo, milhas_qtd |-> milhas_qtd,
     custo_parcial |-> custo_parcial, ordem |-> ordem]

\* A row of cpm_checkpoints.
CheckpointRow(acc_id, prog_id, total_milhas, total_custo, tipo, periodo, ts) ==
    [id |-> ts, account_id |-> acc_id, programa_id |-> prog_id,
     total_milhas |-> total_milhas, total_custo |-> total_custo,
     tipo |-> tipo, periodo_referencia |-> periodo, created_at |-> ts]

\* A row of subscriptions, as inserted: active, with no end date.
SubscriptionRow(acc_id, prog_id, valor, milhas, cpm_fixo, ts) ==
    [id |-> ts, account_id |-> acc_id, programa_id |-> prog_id,
     valor_total_ciclo |-> valor, milhas_garantidas_ciclo |-> milhas,
     cpm_fixo |-> cpm_fixo, ativo |-> TRUE, data_fim |-> FALSE, created_at |-> ts]

\* What a call returns: the kind of message, the transaction id it names, and
\* whether it lists checkpoints removed (aviso_chk of confirm_delete_transaction).
\* A failure message does not name the tool; a success message does.
Result(op, status, id) ==
    [status |-> IF status = "OK" THEN op ELSE status, id |-> id, aviso_chk |-> FALSE]

\* ref = uuid.uuid4().hex[:8]: the references a message may carry.
Refs == {"3f9a1c07", "b26e55d1"}

\* str(e) of the exceptions the store raises.
StoreErrors ==
    {"connection to server was lost", "relation \"transactions\" does not exist"}

\* A handler that returns the text of the exception.
sanitize_error_raw(tool_name, e, ref) ==
    [status |-> e, id |-> NULL, aviso_chk |-> FALSE, ref |-> ref]

\* _sanitize_error(tool_name, e): the exception goes to the log; the message
\* returned is the generic one, which names the tool and carries ref.
sanitize_error(tool_name, e, ref) ==
    [status |-> CASE tool_name = "register_subscription" ->
                       "InternalError: register_subscription"
                  [] tool_name = "correct_last_subscription" ->
                       "InternalError: correct_last_subscription"
                  [] tool_name = "save_complex_transfer" ->
                       "InternalError: save_complex_transfer"
                  [] tool_name = "apply_cpm_adjustment" ->
                       "InternalError: apply_cpm_adjustment"
                  [] OTHER -> "InternalError",
     id |-> NULL, aviso_chk |-> FALSE, ref |-> ref]

(***************************************************************************)
(* Queries.                                                                *)
(***************************************************************************)
\* Transactions of one account/program pair.
TxOfPair(acc_id, prog_id) ==
    {t \in transactions : t.account_id = acc_id /\ t.companhia_referencia_id = prog_id}

\* Checkpoints of one account/program pair.
ChkOfPair(acc_id, prog_id) ==
    {c \in cpm_checkpoints : c.account_id = acc_id /\ c.programa_id = prog_id}

\* SELECT ... FROM subscriptions WHERE account_id, programa_id, ativo = TRUE
\* ORDER BY created_at DESC LIMIT 1
ActiveSubs(acc_id, prog_id) ==
    {s \in subscriptions : s.account_id = acc_id /\ s.programa_id = prog_id /\ s.ativo}

\* SELECT COALESCE(SUM(milhas_creditadas), 0) FROM transactions WHERE subscription_id = %s
total_ja_creditado(sub_id) ==
    SumMilhas({t \in transactions : t.subscription_id = sub_id})

\* _get_cpm_totals with the created_at > cutoff filter of the delta left out.
cpm_totals_sem_corte(txs, checkpoints, acc_id, prog_id) ==
    LET chks == {c \in checkpoints : c.account_id = acc_id /\ c.programa_id = prog_id}
        mine == {t \in txs : t.account_id = acc_id /\ t.companhia_referencia_id = prog_id}
        has_checkpoint == chks # {}
        base_milhas == IF has_checkpoint THEN Latest(chks).total_milhas ELSE 0
        base_custo  == IF has_checkpoint THEN Latest(chks).total_custo ELSE 0
    IN [total_milhas |-> base_milhas + SumMilhas(mine),
        total_custo  |-> base_custo + SumCusto(mine),
        checkpoint   |-> IF has_checkpoint THEN {Latest(chks)} ELSE {},
        delta        |-> mine]

\* _get_cpm_totals on the tables as the connection sees them: the latest
\* checkpoint of the pair as base, plus the transactions of the pair created
\* after it (all of them without a checkpoint).
cpm_totals(txs, checkpoints, acc_id, prog_id) ==
    LET chks == {c \in checkpoints : c.account_id = acc_id /\ c.programa_id = prog_id}
        mine == {t \in txs : t.account_id = acc_id /\ t.companhia_referencia_id = prog_id}
        has_checkpoint == chks # {}
        delta == IF has_checkpoint
                 THEN {t \in mine : t.created_at > Latest(chks).created_at}
                 ELSE mine
        base_milhas == IF has_checkpoint THEN Latest(chks).total_milhas ELSE 0
        base_custo  == IF has_checkpoint THEN Latest(chks).total_custo ELSE 0
    IN [total_milhas |-> base_milhas + SumMilhas(delta),
        total_custo  |-> base_custo + SumCusto(delta),
        checkpoint   |-> IF has_checkpoint THEN {Latest(chks)} ELSE {},
        delta        |-> delta]

\* _get_cpm_totals on the committed tables.
get_cpm_totals(acc_id, prog_id) == cpm_totals(transactions, cpm_checkpoints, acc_id, prog_id)

\* get_dashboard: SUM(milhas_creditadas) and SUM(custo_total) of the pair over
\* its whole history.
dashboard_totals(acc_id, prog_id) ==
    [total_milhas |-> SumMilhas(TxOfPair(acc_id, prog_id)),
     total_custo  |-> SumCusto(TxOfPair(acc_id, prog_id))]

(***************************************************************************)
(* Transaction Recorder.                                                   *)
(***************************************************************************)
\* save_simple_transaction
save_simple_transaction(nome_conta, nome_programa, milhas, custo_total, bonus_percent, data_transacao) ==
    LET op == "save_simple_transaction"
        acc_id == get_account_id(nome_conta)
        prog_id == get_program_id(nome_programa)
        milhas_base == milhas
        total_milhas == total_milhas_of(milhas_base, bonus_percent)
        modo == IF custo_total <= 0 THEN "ORGANICO" ELSE "COMPRA_SIMPLES"
        custo_final == IF custo_total <= 0 THEN 0 ELSE custo_total
        ts == next_created_at
    IN IF data_tx_of(data_transacao) = {}
       THEN /\ result' = Result(op, "InvalidDate", NULL)
            /\ UNCHANGED <<store, clock, tokens, procvars>>
       ELSE IF acc_id = NULL
       THEN /\ result' = Result(op, "AccountNotFound", NULL)
            /\ UNCHANGED <<store, clock, tokens, procvars>>
       ELSE IF prog_id = NULL
       THEN /\ result' = Result(op, "ProgramNotFound", NULL)
            /\ UNCHANGED <<store, clock, tokens, procvars>>
       ELSE /\ CanInsert(1)
            /\ transactions' = transactions \cup
                 {TxRow(acc_id, modo, prog_id, prog_id, milhas_base, bonus_percent,
                        total_milhas, custo_final, NULL, ts)}
            /\ clock' = ts
            /\ result' = Result(op, "OK", NULL)
            /\ UNCHANGED <<transaction_batches, subscriptions, cpm_checkpoints, tokens, procvars>>

\* save_complex_transfer's validations with the comparison of the lots' sum
\* left out.
transfer_validation_sem_soma(milhas_base, bonus_percent, lote_organico_qtd, lote_pago_qtd) ==
    IF milhas_base <= 0 THEN "ValidationError"
    ELSE IF bonus_percent < 0 THEN "ValidationError"
    ELSE IF lote_organico_qtd < 0 \/ lote_pago_qtd < 0 THEN "ValidationError"
    ELSE "OK"

\* The validations of save_complex_transfer, in the order of the code; "OK"
\* when all pass.  The message about the lots' sum is told apart from the others.
transfer_validation(milhas_base, bonus_percent, lote_organico_qtd, lote_pago_qtd) ==
    IF milhas_base <= 0 THEN "ValidationError"
    ELSE IF bonus_percent < 0 THEN "ValidationError"
    ELSE IF lote_organico_qtd < 0 \/ lote_pago_qtd < 0 THEN "ValidationError"
    ELSE IF lote_organico_qtd + lote_pago_qtd # milhas_base THEN "ValidationError: soma dos lotes"
    ELSE "OK"

\* The child lots save_complex_transfer inserts: one per non-zero lot.
transfer_batches(tx_id, lote_organico_qtd, custo_organico, lote_pago_qtd, lote_pago_custo_total) ==
    (IF lote_organico_qtd > 0
     THEN {BatchRow(tx_id, "ORGANICO", lote_organico_qtd, custo_organico, 1)} ELSE {})
    \cup
    (IF lote_pago_qtd > 0
     THEN {BatchRow(tx_id, "PAGO", lote_pago_qtd, lote_pago_custo_total, 2)} ELSE {})

\* A transfer booked on the program it comes from.
companhia_origem(orig_id, dest_id) == orig_id

\* companhia_referencia_id of a transfer: the INSERT passes dest_id for both
\* destino_id and companhia_referencia_id.
companhia_referencia(orig_id, dest_id) == dest_id

\* save_complex_transfer
save_complex_transfer(identificador_conta, origem_nome, destino_nome, milhas_base, bonus_percent, lote_organico_qtd, lote_organico_cpm, lote_pago_qtd, lote_pago_custo_total, data_transacao) ==
    LET op == "save_complex_transfer"
        acc_id == get_account_id(identificador_conta)
        orig_id == get_program_id(origem_nome)
        dest_id == get_program_id(destino_nome)
        custo_organico == lote_organico_qtd * lote_organico_cpm
        custo_total == custo_organico + lote_pago_custo_total
        milhas_creditadas == total_milhas_of(milhas_base, bonus_percent)
        ts == next_created_at
        valid == transfer_validation(milhas_base, bonus_percent, lote_organico_qtd, lote_pago_qtd)
    IN IF data_tx_of(data_transacao) = {}
       THEN /\ result' = Result(op, "InvalidDate", NULL)
            /\ UNCHANGED <<store, clock, tokens, procvars>>
       ELSE IF acc_id = NULL
       THEN /\ result' = Result(op, "AccountNotFound", NULL)
            /\ UNCHANGED <<store, clock, tokens, procvars>>
       ELSE IF orig_id = NULL \/ dest_id = NULL
       THEN /\ result' = Result(op, "ProgramNotFound", NULL)
            /\ UNCHANGED <<store, clock, tokens, procvars>>
       ELSE IF valid # "OK"
       THEN /\ result' = Result(op, valid, NULL)
            /\ UNCHANGED <<store, clock, tokens, procvars>>
       ELSE /\ CanInsert(1)
            /\ transactions' = transactions \cup
                 {TxRow(acc_id, "TRANSFERENCIA_BANCO_CIA", orig_id,
                        companhia_referencia(orig_id, dest_id), milhas_base,
                        bonus_percent, milhas_creditadas, custo_total, NULL, ts)}
            /\ transaction_batches' = transaction_batches \cup
                 transfer_batches(ts, lote_organico_qtd, custo_organico,
                                  lote_pago_qtd, lote_pago_custo_total)
            /\ clock' = ts
            /\ result' = Result(op, "OK", NULL)
            /\ UNCHANGED <<subscriptions, cpm_checkpoints, tokens, procvars>>

(***************************************************************************)
(* Subscription Manager.                                                   *)
(***************************************************************************)
\* parse_date_natural(texto, prefer_future=...): the function takes texto alone,
\* so the call raises TypeError whatever the text.
parse_date_natural_kw(texto, prefer_future) == [raised |-> TRUE, value |-> {}]

\* _parse_subscription_params: err is "OK" or the failure.
parse_subscription_params(valor_total_ciclo, milhas_garantidas_ciclo, data_renovacao, data_inicio, is_mensal) ==
    LET ini == IF data_inicio # "" THEN parse_date_natural_kw(data_inicio, FALSE)
               ELSE [raised |-> FALSE, value |-> {0}]
        renov == parse_date_natural_kw(data_renovacao, TRUE)
        valor_contrato == IF is_mensal THEN valor_total_ciclo * 12 ELSE valor_total_ciclo
        milhas_contrato == IF is_mensal THEN milhas_garantidas_ciclo * 12
                           ELSE milhas_garantidas_ciclo
        err == IF ini.raised THEN "TypeError"
               ELSE IF ini.value = {} THEN "DateUnparseable"
               ELSE IF renov.raised THEN "TypeError"
               ELSE IF renov.value = {} THEN "DateUnparseable"
               ELSE IF \E r \in renov.value, i \in ini.value : r <= i THEN "InvalidRenewalOrder"
               ELSE IF valor_contrato <= 0 THEN "NonPositiveValue"
               ELSE IF milhas_contrato <= 0 THEN "NonPositiveValue"
               ELSE "OK"
    IN [err |-> err, valor_contrato |-> valor_contrato, milhas_contrato |-> milhas_contrato]

\* _insert_subscription: the row inserted; cpm_fixo is computed by the store.
insert_subscription(acc_id, prog_id, valor_contrato, milhas_contrato, ts) ==
    SubscriptionRow(acc_id, prog_id, valor_contrato, milhas_contrato,
                    valor_contrato \div milhas_contrato, ts)

\* register_subscription
register_subscription(nome_conta, nome_programa, valor_total_ciclo, milhas_garantidas_ciclo, data_renovacao, data_inicio, is_mensal) ==
    LET op == "register_subscription"
        parsed == parse_subscription_params(valor_total_ciclo, milhas_garantidas_ciclo,
                                            data_renovacao, data_inicio, is_mensal)
        acc_id == get_account_id(nome_conta)
        prog_id == get_program_id(nome_programa)
        ts == next_created_at
    IN IF parsed.err = "TypeError"
       THEN /\ \E ref \in Refs : result' = sanitize_error(op, parsed.err, ref)
            /\ UNCHANGED <<store, clock, tokens, procvars>>
       ELSE IF parsed.err # "OK"
       THEN /\ result' = Result(op, parsed.err, NULL)
            /\ UNCHANGED <<store, clock, tokens, procvars>>
       ELSE IF acc_id = NULL
       THEN /\ result' = Result(op, "AccountNotFound", NULL)
            /\ UNCHANGED <<store, clock, tokens, procvars>>
       ELSE IF prog_id = NULL
       THEN /\ result' = Result(op, "ProgramNotFound", NULL)
            /\ UNCHANGED <<store, clock, tokens, procvars>>
       ELSE /\ CanInsert(1)
            /\ subscriptions' = subscriptions \cup
                 {insert_subscription(acc_id, prog_id, parsed.valor_contrato,
                                      parsed.milhas_contrato, ts)}
            /\ clock' = ts
            /\ result' = Result(op, "OK", NULL)
            /\ UNCHANGED <<transactions, transaction_batches, cpm_checkpoints, tokens, procvars>>

\* correct_last_subscription: end the latest active contract (the store's
\* trigger clears ativo when data_fim is set), insert the replacement, re-link
\* the old contract's transactions to it; one commit.
correct_last_subscription(nome_conta, nome_programa, valor_total_ciclo, milhas_garantidas_ciclo, data_renovacao, data_inicio, is_mensal) ==
    LET op == "correct_last_subscription"
        parsed == parse_subscription_params(valor_total_ciclo, milhas_garantidas_ciclo,
                                            data_renovacao, data_inicio, is_mensal)
        acc_id == get_account_id(nome_conta)
        prog_id == get_program_id(nome_programa)
        ativos == ActiveSubs(acc_id, prog_id)
        ts == next_created_at
        ended == IF ativos = {} THEN subscriptions
                 ELSE (subscriptions \ {Latest(ativos)}) \cup
                      {[Latest(ativos) EXCEPT !.data_fim = TRUE, !.ativo = FALSE]}
    IN IF parsed.err = "TypeError"
       THEN /\ \E ref \in Refs : result' = sanitize_error(op, parsed.err, ref)
            /\ UNCHANGED <<store, clock, tokens, procvars>>
       ELSE IF parsed.err # "OK"
       THEN /\ result' = Result(op, parsed.err, NULL)
            /\ UNCHANGED <<store, clock, tokens, procvars>>
       ELSE IF acc_id = NULL
       THEN /\ result' = Result(op, "AccountNotFound", NULL)
            /\ UNCHANGED <<store, clock, tokens, procvars>>
       ELSE IF prog_id = NULL
       THEN /\ result' = Result(op, "ProgramNotFound", NULL)
            /\ UNCHANGED <<store, clock, tokens, procvars>>
       ELSE /\ CanInsert(1)
            /\ subscriptions' = ended \cup
                 {insert_subscription(acc_id, prog_id, parsed.valor_contrato,
                                      parsed.milhas_contrato, ts)}
            /\ transactions' =
                 IF ativos = {} THEN transactions
                 ELSE {IF t.subscription_id = Latest(ativos).id
                       THEN [t EXCEPT !.subscription_id = ts] ELSE t : t \in transactions}
            /\ clock' = ts
            /\ result' = Result(op, "OK", NULL)
            /\ UNCHANGED <<transaction_batches, cpm_checkpoints, tokens, procvars>>

\* An amount taken as supplied, whatever it is.
qtd_inserir_informado(milhas_do_mes, milhas_totais_contrato) == milhas_do_mes

\* qtd_inserir: the supplied amount when positive, else 1/12 of the contract.
qtd_inserir_of(milhas_do_mes, milhas_totais_contrato) ==
    IF milhas_do_mes > 0 THEN milhas_do_mes ELSE py_int(milhas_totais_contrato, 12)

\* saldo_restante = milhas_totais_contrato - total_ja_creditado
saldo_restante_of(sub) == sub.milhas_garantidas_ciclo - total_ja_creditado(sub.id)

\* A guard that never blocks.
overcredit_never_blocked(qtd_inserir, saldo_restante) == FALSE

\* The guard of process_monthly_credit: if qtd_inserir > saldo_restante, block.
overcredit_blocked(qtd_inserir, saldo_restante) == qtd_inserir > saldo_restante

\* The transaction process_monthly_credit inserts.
monthly_credit_row(sub, qtd_inserir, ts) ==
    TxRow(sub.account_id, "CLUBE_ASSINATURA", sub.programa_id, sub.programa_id,
          qtd_inserir, 0, qtd_inserir, qtd_inserir * sub.cpm_fixo, sub.id, ts)

\* process_monthly_credit, one call running alone.
process_monthly_credit(nome_conta, nome_programa, milhas_do_mes) ==
    LET op == "process_monthly_credit"
        acc_id == get_account_id(nome_conta)
        prog_id == get_program_id(nome_programa)
        ativos == ActiveSubs(acc_id, prog_id)
        ts == next_created_at
    IN IF acc_id = NULL
       THEN /\ result' = Result(op, "AccountNotFound", NULL)
            /\ UNCHANGED <<store, clock, tokens, procvars>>
       ELSE IF prog_id = NULL
       THEN /\ result' = Result(op, "ProgramNotFound", NULL)
            /\ UNCHANGED <<store, clock, tokens, procvars>>
       ELSE IF ativos = {}
       THEN /\ result' = Result(op, "NoActiveSubscription", NULL)
            /\ UNCHANGED <<store, clock, tokens, procvars>>
       ELSE LET sub == Latest(ativos)
                qtd_inserir == qtd_inserir_of(milhas_do_mes, sub.milhas_garantidas_ciclo)
            IN IF overcredit_blocked(qtd_inserir, saldo_restante_of(sub))
               THEN /\ result' = Result(op, "OvercreditBlocked", NULL)
                    /\ UNCHANGED <<store, clock, tokens, procvars>>
               ELSE /\ CanInsert(1)
                    /\ transactions' = transactions \cup {monthly_credit_row(sub, qtd_inserir, ts)}
                    /\ clock' = ts
                    /\ result' = Result(op, "OK", NULL)
                    /\ UNCHANGED <<transaction_batches, subscriptions, cpm_checkpoints,
                                   tokens, procvars>>

\* An entry linked to no subscription.
sub_id_null(ativos) == NULL

\* sub_id = row[0] of the active-subscription SELECT.
sub_id_of(ativos) == Latest(ativos).id

\* register_intra_club_transaction
register_intra_club_transaction(nome_conta, nome_programa, milhas, custo_total, bonus_percent) ==
    LET op == "register_intra_club_transaction"
        acc_id == get_account_id(nome_conta)
        prog_id == get_program_id(nome_programa)
        milhas_base == milhas
        total_milhas == total_milhas_of(milhas_base, bonus_percent)
        modo == IF custo_total <= 0 THEN "ORGANICO" ELSE "COMPRA_SIMPLES"
        custo_final == IF custo_total <= 0 THEN 0 ELSE custo_total
        ativos == ActiveSubs(acc_id, prog_id)
        ts == next_created_at
    IN IF acc_id = NULL
       THEN /\ result' = Result(op, "AccountNotFound", NULL)
            /\ UNCHANGED <<store, clock, tokens, procvars>>
       ELSE IF prog_id = NULL
       THEN /\ result' = Result(op, "ProgramNotFound", NULL)
            /\ UNCHANGED <<store, clock, tokens, procvars>>
       ELSE IF ativos = {}
       THEN /\ result' = Result(op, "NoActiveSubscription", NULL)
            /\ UNCHANGED <<store, clock, tokens, procvars>>
       ELSE /\ CanInsert(1)
            /\ transactions' = transactions \cup
                 {TxRow(acc_id, modo, prog_id, prog_id, milhas_base, bonus_percent,
                        total_milhas, custo_final, sub_id_of(ativos), ts)}
            /\ clock' = ts
            /\ result' = Result(op, "OK", NULL)
            /\ UNCHANGED <<transaction_batches, subscriptions, cpm_checkpoints, tokens, procvars>>

(***************************************************************************)
(* Deletion Protocol.                                                      *)
(***************************************************************************)
\* A look-up of the checkpoints of the pair that leaves created_at out.
checkpoint_do_par(tx) == ChkOfPair(tx.account_id, tx.companhia_referencia_id)

\* SELECT tipo, cpm_snapshot, periodo_referencia FROM cpm_checkpoints WHERE
\* account_id, programa_id = (that of tx), created_at > (that of tx)
checkpoint_posterior(tx) ==
    {c \in cpm_checkpoints : /\ c.account_id = tx.account_id
                             /\ c.programa_id = tx.companhia_referencia_id
                             /\ c.created_at > tx.created_at}

\* delete_last_transaction: the preview; nome_programa NULL when omitted.
\* aviso_chk of its result is the warning that a checkpoint will be removed.
delete_last_transaction(nome_conta, nome_programa) ==
    LET op == "delete_last_transaction"
        acc_id == get_account_id(nome_conta)
        prog_id == get_program_id(nome_programa)
        rows == IF nome_programa # NULL
                THEN TxOfPair(acc_id, prog_id)
                ELSE {t \in transactions : t.account_id = acc_id}
    IN IF acc_id = NULL
       THEN /\ result' = Result(op, "AccountNotFound", NULL)
            /\ UNCHANGED <<store, clock, tokens, procvars>>
       ELSE IF nome_programa # NULL /\ prog_id = NULL
       THEN /\ result' = Result(op, "ProgramNotFound", NULL)
            /\ UNCHANGED <<store, clock, tokens, procvars>>
       ELSE IF rows = {}
       THEN /\ result' = Result(op, "NoTransaction", NULL)
            /\ UNCHANGED <<store, clock, tokens, procvars>>
       ELSE /\ result' = [Result(op, "OK", Latest(rows).id)
                             EXCEPT !.aviso_chk = checkpoint_posterior(Latest(rows)) # {}]
            /\ tokens' = {Latest(rows).id}
            /\ UNCHANGED <<store, clock, procvars>>

\* A deletion that removes no checkpoint.
no_checkpoints_invalidated(tx) == {}

\* SELECT ... FROM transactions t WHERE t.id = %s with the WHERE clause left out.
fetch_any_transaction(transaction_id) == transactions

\* SELECT ... FROM transactions t ... WHERE t.id = %s
fetch_transaction(transaction_id) == {t \in transactions : t.id = transaction_id}

\* A DELETE that leaves the program out: the checkpoints of the account created
\* after transaction tx.
checkpoints_da_conta(tx) ==
    {c \in cpm_checkpoints : c.account_id = tx.account_id /\ c.created_at > tx.created_at}

\* A DELETE with the comparison turned around: the checkpoints of the pair
\* created before transaction tx.
checkpoints_anteriores(tx) ==
    {c \in cpm_checkpoints : /\ c.account_id = tx.account_id
                             /\ c.programa_id = tx.companhia_referencia_id
                             /\ c.created_at < tx.created_at}

\* DELETE FROM cpm_checkpoints WHERE account_id, programa_id, created_at > %s:
\* the checkpoints confirm_delete_transaction removes with transaction tx.
checkpoints_invalidated(tx) ==
    {c \in cpm_checkpoints : /\ c.account_id = tx.account_id
                             /\ c.programa_id = tx.companhia_referencia_id
                             /\ c.created_at > tx.created_at}

\* confirm_delete_transaction; its result names the program of the deleted
\* transaction and carries chks_removidos, the <<tipo, periodo_referencia>> the
\* DELETE of the checkpoints returns.
confirm_delete_transaction(transaction_id) ==
    LET op == "confirm_delete_transaction"
        rows == fetch_transaction(transaction_id)
    IN IF rows = {}
       THEN /\ result' = Result(op, "NotFound", transaction_id)
            /\ UNCHANGED <<store, clock, tokens, procvars>>
       ELSE LET tx == CHOOSE t \in rows : TRUE
            IN /\ cpm_checkpoints' = cpm_checkpoints \ checkpoints_invalidated(tx)
               /\ transactions' = transactions \ {tx}
               /\ transaction_batches' =
                     {b \in transaction_batches : b.transaction_id # tx.id}
               /\ result' = [status |-> op, id |-> transaction_id,
                             aviso_chk |-> checkpoints_invalidated(tx) # {},
                             programa |-> tx.companhia_referencia_id,
                             chks_removidos |-> {<<c.tipo, c.periodo_referencia>> :
                                                    c \in checkpoints_invalidated(tx)}]
               /\ UNCHANGED <<subscriptions, clock, tokens, procvars>>

(***************************************************************************)
(* CPM Reconciliation Engine.                                              *)
(***************************************************************************)
\* The argument checks of confirm_cpm_checkpoint made before the connection
\* is taken; "OK" when all pass.
checkpoint_args(tipo, periodo_referencia) ==
    IF tipo \notin {"MENSAL", "MANUAL"} THEN "InvalidTipo"
    ELSE IF tipo = "MENSAL" /\ periodo_referencia = "" THEN "PeriodRequired"
    ELSE IF tipo = "MENSAL" /\ ~(split_periodo(periodo_referencia)[2] \in 1..12)
    THEN "InvalidPeriod"
    ELSE IF tipo = "MENSAL" /\ periodo_futuro(split_periodo(periodo_referencia))
    THEN "FuturePeriod"
    ELSE "OK"

\* A SELECT that finds no checkpoint of the period.
periodo_nunca_fechado(checkpoints, acc_id, prog_id, periodo_referencia) == FALSE

\* SELECT id FROM cpm_checkpoints WHERE account_id, programa_id,
\* periodo_referencia = %s: whether the period already has a checkpoint.
periodo_fechado(checkpoints, acc_id, prog_id, periodo_referencia) ==
    \E c \in checkpoints : /\ c.account_id = acc_id
                           /\ c.programa_id = prog_id
                           /\ c.periodo_referencia = periodo_referencia

\* The store's unique index on cpm_checkpoints: one MENSAL row per account,
\* program and period.  Whether inserting row would violate it.
unique_violation(checkpoints, row) ==
    /\ row.tipo = "MENSAL"
    /\ \E c \in checkpoints : /\ c.tipo = "MENSAL"
                              /\ c.account_id = row.account_id
                              /\ c.programa_id = row.programa_id
                              /\ c.periodo_referencia = row.periodo_referencia

\* A write that refreshes the pair's latest checkpoint in place when it has one.
refresh_cpm_checkpoint(checkpoints, row) ==
    LET chks == {c \in checkpoints : c.account_id = row.account_id /\ c.programa_id = row.programa_id}
    IN IF chks = {} THEN checkpoints \cup {row}
       ELSE (checkpoints \ {Latest(chks)}) \cup
            {[row EXCEPT !.id = Latest(chks).id, !.created_at = Latest(chks).created_at]}

\* _insert_cpm_checkpoint: INSERT INTO cpm_checkpoints ... RETURNING id, a new
\* row beside the ones the table holds.
insert_cpm_checkpoint(checkpoints, row) == checkpoints \cup {row}

\* A check of the totals that never reports missing data.
no_data_never(total_milhas) == FALSE

\* if total_milhas <= 0: "Nenhuma transação encontrada"
no_data(total_milhas) == total_milhas <= 0

\* confirm_cpm_checkpoint, one call running alone.
confirm_cpm_checkpoint(nome_conta, nome_programa, tipo, periodo_referencia) ==
    LET op == "confirm_cpm_checkpoint"
        args == checkpoint_args(tipo, periodo_referencia)
        acc_id == get_account_id(nome_conta)
        prog_id == get_program_id(nome_programa)
        totals == get_cpm_totals(acc_id, prog_id)
        ts == next_created_at
        row == CheckpointRow(acc_id, prog_id, totals.total_milhas, totals.total_custo,
                             tipo, periodo_referencia, ts)
    IN IF args # "OK"
       THEN /\ result' = Result(op, args, NULL)
            /\ UNCHANGED <<store, clock, tokens, procvars>>
       ELSE IF acc_id = NULL
       THEN /\ result' = Result(op, "AccountNotFound", NULL)
            /\ UNCHANGED <<store, clock, tokens, procvars>>
       ELSE IF prog_id = NULL
       THEN /\ result' = Result(op, "ProgramNotFound", NULL)
            /\ UNCHANGED <<store, clock, tokens, procvars>>
       ELSE IF tipo = "MENSAL" /\ periodo_fechado(cpm_checkpoints, acc_id, prog_id, periodo_referencia)
       THEN /\ result' = Result(op, "AlreadyClosed", NULL)
            /\ UNCHANGED <<store, clock, tokens, procvars>>
       ELSE IF no_data(totals.total_milhas)
       THEN /\ result' = Result(op, "NoData", NULL)
            /\ UNCHANGED <<store, clock, tokens, procvars>>
       ELSE IF unique_violation(cpm_checkpoints, row)
       THEN /\ result' = Result(op, "AlreadyClosed", NULL)
            /\ UNCHANGED <<store, clock, tokens, procvars>>
       ELSE /\ CanInsert(1)
            /\ cpm_checkpoints' = insert_cpm_checkpoint(cpm_checkpoints, row)
            /\ clock' = ts
            /\ result' = Result(op, "OK", NULL)
            /\ UNCHANGED <<transactions, transaction_batches, subscriptions, tokens, procvars>>

\* The argument checks of apply_cpm_adjustment; "OK" when all pass.
adjustment_args(tipo_ajuste, valor) ==
    IF tipo_ajuste \notin {"CUSTO", "MILHAS"} THEN "InvalidTipo"
    ELSE IF valor = 0 THEN "ZeroValue"
    ELSE IF tipo_ajuste = "MILHAS" /\ valor < 0 THEN "InvalidValue"
    ELSE "OK"

\* A check of the resulting cost that rejects nothing.
negative_cost_allowed(custo_resultante) == FALSE

\* if custo_resultante < 0: "Ajuste inválido"
negative_cost(custo_resultante) == custo_resultante < 0

\* A read of the transactions that misses the caller's own uncommitted insert.
committed_only(tx) == transactions

\* The transactions _get_cpm_totals reads after the INSERT of the adjustment,
\* on the same connection: the stored ones and the adjustment.
own_view(tx) == transactions \cup {tx}

\* apply_cpm_adjustment: the AJUSTE_CPM transaction, then the AUTO checkpoint
\* of the totals that include it, in one commit.
apply_cpm_adjustment(nome_conta, nome_programa, tipo_ajuste, valor) ==
    LET op == "apply_cpm_adjustment"
        args == adjustment_args(tipo_ajuste, valor)
        acc_id == get_account_id(nome_conta)
        prog_id == get_program_id(nome_programa)
        custo_resultante == get_cpm_totals(acc_id, prog_id).total_custo + valor
        milhas_credit == IF tipo_ajuste = "CUSTO" THEN 0 ELSE valor
        custo == IF tipo_ajuste = "CUSTO" THEN valor ELSE 0
        ts == next_created_at
        tx == TxRow(acc_id, "AJUSTE_CPM", NULL, prog_id, milhas_credit, 0, milhas_credit,
                    custo, NULL, ts)
        totals == cpm_totals(own_view(tx), cpm_checkpoints, acc_id, prog_id)
    IN IF args # "OK"
       THEN /\ result' = Result(op, args, NULL)
            /\ UNCHANGED <<store, clock, tokens, procvars>>
       ELSE IF acc_id = NULL
       THEN /\ result' = Result(op, "AccountNotFound", NULL)
            /\ UNCHANGED <<store, clock, tokens, procvars>>
       ELSE IF prog_id = NULL
       THEN /\ result' = Result(op, "ProgramNotFound", NULL)
            /\ UNCHANGED <<store, clock, tokens, procvars>>
       ELSE IF tipo_ajuste = "CUSTO" /\ negative_cost(custo_resultante)
       THEN /\ result' = Result(op, "NegativeCost", NULL)
            /\ UNCHANGED <<store, clock, tokens, procvars>>
       ELSE /\ CanInsert(2)
            /\ transactions' = transactions \cup {tx}
            /\ cpm_checkpoints' = insert_cpm_checkpoint(cpm_checkpoints,
                  CheckpointRow(acc_id, prog_id, totals.total_milhas, totals.total_custo,
                                "AUTO", "", ts + 1))
            /\ clock' = ts + 1
            /\ result' = Result(op, "OK", NULL)
            /\ UNCHANGED <<transaction_batches, subscriptions, tokens, procvars>>

\* mes_anterior of get_client_panorama: the month before today's, as <<ano, mes>>.
mes_anterior ==
    IF hoje_ref[2] > 1 THEN <<hoje_ref[1], hoje_ref[2] - 1>> ELSE <<hoje_ref[1] - 1, 12>>

\* SELECT id FROM cpm_checkpoints WHERE account_id, programa_id,
\* periodo_referencia = mes_anterior: tem_mensal of get_client_panorama.
tem_mensal(acc_id, prog_id) ==
    \E c \in ChkOfPair(acc_id, prog_id) : split_periodo(c.periodo_referencia) = mes_anterior

\* The health status get_client_panorama gives a program of the account.
panorama_status(acc_id, prog_id) ==
    LET totals == get_cpm_totals(acc_id, prog_id)
        delta_count == Cardinality(totals.delta)
    IN IF totals.checkpoint = {} THEN "SEM CHECKPOINT"
       ELSE IF ~tem_mensal(acc_id, prog_id) \/ delta_count > 10 THEN "ALERTA"
       ELSE "OK"

\* get_client_panorama: one line per program the account has transactions in
\* and whose totals have positive units; linhas maps the program to its status.
get_client_panorama(nome_conta) ==
    LET op == "get_client_panorama"
        acc_id == get_account_id(nome_conta)
        programas == {t.companhia_referencia_id : t \in {u \in transactions : u.account_id = acc_id}}
        listados == {pr \in programas : get_cpm_totals(acc_id, pr).total_milhas > 0}
    IN /\ result' =
              IF acc_id = NULL THEN Result(op, "AccountNotFound", NULL)
              ELSE IF programas = {} THEN Result(op, "NoTransaction", NULL)
              ELSE [status |-> op, id |-> NULL, aviso_chk |-> FALSE,
                    linhas |-> [pr \in listados |-> panorama_status(acc_id, pr)]]
       /\ UNCHANGED <<store, clock, tokens, procvars>>

\* round(x, 2) of an amount x = n / d in thousandths of a centavo (d > 0): the
\* nearest whole centavo, a multiple of 1000.
round_centavo(n, d) ==
    LET q == n \div d
        r == n % d
        m == q % 1000
    IN IF 2 * (m * d + r) >= 1000 * d THEN q - m + 1000 ELSE q - m

\* total_custo / total_milhas * 1000, rounded to the centavo: the CPM per
\* thousand units.
cpm_of(total_custo, total_milhas) ==
    LET q == total_custo \div total_milhas
        r == total_custo % total_milhas
    IN q * 1000 + round_centavo(r * 1000, total_milhas)

\* cpm_alvo * total_milhas / 1000 - total_custo, rounded to the centavo.
delta_custo_of(cpm_alvo, total_milhas, total_custo) ==
    LET inteiro == (cpm_alvo \div 1000) * total_milhas - total_custo
        resto == (cpm_alvo % 1000) * total_milhas
    IN (inteiro - (inteiro % 1000)) + round_centavo((inteiro % 1000) * 1000 + resto, 1000)

\* calculate_cpm_adjustment: the options offered for a target CPM.  The units
\* of Option B are total_custo / cpm_alvo * 1000 - total_milhas, a division
\* that raises for cpm_alvo = 0.
calculate_cpm_adjustment(nome_conta, nome_programa, cpm_alvo) ==
    LET op == "calculate_cpm_adjustment"
        acc_id == get_account_id(nome_conta)
        prog_id == get_program_id(nome_programa)
        totals == get_cpm_totals(acc_id, prog_id)
        cpm_atual == cpm_of(totals.total_custo, totals.total_milhas)
        diff == IF cpm_atual >= cpm_alvo THEN cpm_atual - cpm_alvo ELSE cpm_alvo - cpm_atual
    IN /\ \E ref \in Refs : result' =
              IF acc_id = NULL THEN Result(op, "AccountNotFound", NULL)
              ELSE IF prog_id = NULL THEN Result(op, "ProgramNotFound", NULL)
              ELSE IF totals.total_milhas <= 0 THEN Result(op, "NoData", NULL)
              ELSE IF diff < 1000 THEN Result(op, "NoAdjustmentNeeded", NULL)
              ELSE IF cpm_alvo < cpm_atual /\ cpm_alvo = 0
              THEN sanitize_error(op, "float division by zero", ref)
              ELSE [status |-> op, id |-> NULL, aviso_chk |-> FALSE,
                    opcao_a |-> TRUE,
                    delta_custo |-> delta_custo_of(cpm_alvo, totals.total_milhas,
                                                   totals.total_custo),
                    opcao_b |-> cpm_alvo < cpm_atual]
       /\ UNCHANGED <<store, clock, tokens, procvars>>

(***************************************************************************)
(* Sequential specification: calls run one at a time, each to completion.  *)
(***************************************************************************)
\* The contracts the store may hold when the toolkit attaches to it: none, or
\* one active contract of account 1 in program 1.
InitSubscriptions ==
    {{}} \cup {{SubscriptionRow(1, 1, c[1] * c[2], c[1], c[2], 1)} : c \in ContratoIn}

\* Database._pool once DatabaseManager() has run Database.initialize(): the
\* one pool created, numbered 1.
PoolReady == [current |-> 1, created |-> 1]

\* The locals of a call that has not started; antes is what the caller has
\* noted of a pair before recording on it (nothing yet).
NoRequest ==
    [milhas_do_mes |-> 0, total_ja_creditado |-> 0, tipo |-> "", periodo_referencia |-> "",
     total_milhas |-> 0, total_custo |-> 0, transfer |-> <<>>, ajuste |-> <<>>, tx_id |-> NULL,
     ref |-> "", antes |-> [nota |-> FALSE]]

Init ==
    /\ transactions = {}
    /\ transaction_batches = {}
    /\ subscriptions = {}
    /\ cpm_checkpoints = {}
    /\ clock = 1
    /\ tokens = {}
    /\ result = [status |-> "none", id |-> NULL, aviso_chk |-> FALSE]
    /\ pc = [p \in Procs |-> "idle"]
    /\ req = [p \in Procs |-> NoRequest]
    /\ pend = [p \in Procs |-> {}]
    /\ ret = [p \in Procs |-> "none"]
    /\ row_lock = NULL
    /\ db_pool = PoolReady

SaveSimple ==
    \E a \in AccountNames, pr \in ProgramNames, x \in SimpleIn, d \in DateIn :
        save_simple_transaction(a, pr, x[1], x[3], x[2], d)

SaveTransfer ==
    \E o \in OrigemNames, d \in ProgramNames, x \in TransferIn, dt \in DateIn :
        save_complex_transfer(1, o, d, x[1], x[2], x[3], x[4], x[5], x[6], dt)

RegisterSubscription ==
    \E x \in SubscriptionIn : register_subscription(1, 1, x[1], x[2], x[3], x[4], x[5])

CorrectSubscription ==
    \E x \in SubscriptionIn : correct_last_subscription(1, 1, x[1], x[2], x[3], x[4], x[5])

MonthlyCredit ==
    \E pr \in ProgramNames, m \in MesIn : process_monthly_credit(1, pr, m)

IntraClub ==
    \E pr \in ProgramNames, x \in SimpleIn :
        register_intra_club_transaction(1, pr, x[1], x[3], x[2])

PreviewDelete ==
    \E a \in AccountNames, pr \in ProgramNames \cup {NULL} : delete_last_transaction(a, pr)

ConfirmDelete ==
    \E id \in tokens : confirm_delete_transaction(id)

ConfirmCheckpoint ==
    \E pr \in ProgramNames, x \in CheckpointIn : confirm_cpm_checkpoint(1, pr, x[1], x[2])

ApplyAdjustment ==
    \E pr \in ProgramNames, x \in AdjustmentIn : apply_cpm_adjustment(1, pr, x[1], x[2])

Next ==
    \/ SaveSimple
    \/ SaveTransfer
    \/ RegisterSubscription
    \/ CorrectSubscription
    \/ MonthlyCredit
    \/ IntraClub
    \/ PreviewDelete
    \/ ConfirmDelete
    \/ ConfirmCheckpoint
    \/ ApplyAdjustment

Spec == Init /\ [][Next]_vars

(***************************************************************************)
(* Subscription specification: the store may hold one active contract when *)
(* the toolkit attaches to it.                                             *)
(***************************************************************************)
InitSub ==
    /\ transactions = {}
    /\ transaction_batches = {}
    /\ subscriptions \in InitSubscriptions
    /\ cpm_checkpoints = {}
    /\ clock = 1
    /\ tokens = {}
    /\ result = [status |-> "none", id |-> NULL, aviso_chk |-> FALSE]
    /\ pc = [p \in Procs |-> "idle"]
    /\ req = [p \in Procs |-> NoRequest]
    /\ pend = [p \in Procs |-> {}]
    /\ ret = [p \in Procs |-> "none"]
    /\ row_lock = NULL
    /\ db_pool = PoolReady

NextSub ==
    \/ RegisterSubscription
    \/ CorrectSubscription
    \/ MonthlyCredit
    \/ IntraClub
    \/ PreviewDelete
    \/ ConfirmDelete

SpecSub == InitSub /\ [][NextSub]_vars

(***************************************************************************)
(* Concurrent specification: two callers, each call advancing one SQL      *)
(* statement at a time under READ COMMITTED.  A statement reads the        *)
(* committed rows; a caller's inserts stay in pend until its commit.       *)
(***************************************************************************)
seqvars == <<tokens, result, db_pool>>

\* A SELECT that takes no row lock (no FOR UPDATE): it never waits.
lock_ignored(p) == TRUE

\* SELECT ... FROM subscriptions ... FOR UPDATE: the statement returns once no
\* other open transaction holds the lock on the contract's row.
lock_available(p) == row_lock \in {NULL, p}

\* An end of transaction that leaves the lock with its holder.
lock_kept(p) == row_lock

\* The commit (or rollback) that ends caller p's transaction releases its lock.
lock_released(p) == IF row_lock = p THEN NULL ELSE row_lock

\* process_monthly_credit: the account and the program are resolved.  A call
\* starts only while the run can still stamp its credit and those of the
\* calls that have not inserted theirs.
McBegin(p) ==
    \E m \in MesIn :
        /\ pc[p] = "idle"
        /\ CanInsert(1 + Cardinality({q \in Procs \ {p} :
                                        pc[q] \in {"mc_select", "mc_sum", "mc_insert"}}))
        /\ pc' = [pc EXCEPT ![p] = "mc_select"]
        /\ req' = [req EXCEPT ![p] = [NoRequest EXCEPT !.milhas_do_mes = m]]
        /\ ret' = [ret EXCEPT ![p] = "none"]
        /\ UNCHANGED <<store, clock, seqvars, pend, row_lock>>

\* process_monthly_credit: the SELECT ... FOR UPDATE of the active contract.
McSelect(p) ==
    /\ pc[p] = "mc_select"
    /\ IF ActiveSubs(1, 1) = {}
       THEN /\ pc' = [pc EXCEPT ![p] = "idle"]
            /\ ret' = [ret EXCEPT ![p] = "NoActiveSubscription"]
            /\ UNCHANGED <<store, clock, seqvars, req, pend, row_lock>>
       ELSE /\ lock_available(p)
            /\ row_lock' = p
            /\ pc' = [pc EXCEPT ![p] = "mc_sum"]
            /\ UNCHANGED <<store, clock, seqvars, req, pend, ret>>

\* process_monthly_credit: SELECT COALESCE(SUM(milhas_creditadas), 0).
McSum(p) ==
    /\ pc[p] = "mc_sum"
    /\ req' = [req EXCEPT ![p].total_ja_creditado =
                  total_ja_creditado(Latest(ActiveSubs(1, 1)).id)]
    /\ pc' = [pc EXCEPT ![p] = "mc_insert"]
    /\ UNCHANGED <<store, clock, seqvars, pend, ret, row_lock>>

\* process_monthly_credit: the guard, then either the early return (which
\* leaves the connection block and commits) or the INSERT.
McInsert(p) ==
    /\ pc[p] = "mc_insert"
    /\ LET sub == Latest(ActiveSubs(1, 1))
           qtd_inserir == qtd_inserir_of(req[p].milhas_do_mes, sub.milhas_garantidas_ciclo)
           saldo_restante == sub.milhas_garantidas_ciclo - req[p].total_ja_creditado
       IN IF overcredit_blocked(qtd_inserir, saldo_restante)
          THEN /\ pc' = [pc EXCEPT ![p] = "idle"]
               /\ ret' = [ret EXCEPT ![p] = "OvercreditBlocked"]
               /\ row_lock' = lock_released(p)
               /\ UNCHANGED <<store, clock, seqvars, req, pend>>
          ELSE /\ CanInsert(1)
               /\ pend' = [pend EXCEPT ![p] = {monthly_credit_row(sub, qtd_inserir, next_created_at)}]
               /\ clock' = next_created_at
               /\ pc' = [pc EXCEPT ![p] = "mc_commit"]
               /\ UNCHANGED <<store, seqvars, req, ret, row_lock>>

\* process_monthly_credit: conn.commit()
McCommit(p) ==
    /\ pc[p] = "mc_commit"
    /\ transactions' = transactions \cup pend[p]
    /\ pend' = [pend EXCEPT ![p] = {}]
    /\ row_lock' = lock_released(p)
    /\ pc' = [pc EXCEPT ![p] = "idle"]
    /\ ret' = [ret EXCEPT ![p] = "process_monthly_credit"]
    /\ UNCHANGED <<transaction_batches, subscriptions, cpm_checkpoints, clock, seqvars, req>>

\* <<tipo, periodo_referencia>> the concurrent callers confirm.
CheckpointConcIn == {<<"MENSAL", "2026-10">>, <<"MANUAL", "2026-10">>}

\* confirm_cpm_checkpoint: the argument checks pass, the account and the
\* program are resolved.
CkBegin(p) ==
    \E x \in CheckpointConcIn :
        /\ pc[p] = "idle"
        /\ checkpoint_args(x[1], x[2]) = "OK"
        /\ pc' = [pc EXCEPT ![p] = "ck_select"]
        /\ req' = [req EXCEPT ![p] = [NoRequest EXCEPT !.tipo = x[1],
                                                        !.periodo_referencia = x[2]]]
        /\ ret' = [ret EXCEPT ![p] = "none"]
        /\ UNCHANGED <<store, clock, seqvars, pend, row_lock>>

\* confirm_cpm_checkpoint: the SELECT of a checkpoint of the period.
CkSelect(p) ==
    /\ pc[p] = "ck_select"
    /\ IF req[p].tipo = "MENSAL"
          /\ periodo_fechado(cpm_checkpoints, 1, 1, req[p].periodo_referencia)
       THEN /\ pc' = [pc EXCEPT ![p] = "idle"]
            /\ ret' = [ret EXCEPT ![p] = "AlreadyClosed"]
       ELSE /\ pc' = [pc EXCEPT ![p] = "ck_totals"]
            /\ ret' = ret
    /\ UNCHANGED <<store, clock, seqvars, req, pend, row_lock>>

\* confirm_cpm_checkpoint: _get_cpm_totals on the same connection.
CkTotals(p) ==
    /\ pc[p] = "ck_totals"
    /\ LET totals == get_cpm_totals(1, 1)
       IN IF no_data(totals.total_milhas)
          THEN /\ pc' = [pc EXCEPT ![p] = "idle"]
               /\ ret' = [ret EXCEPT ![p] = "NoData"]
               /\ req' = req
          ELSE /\ pc' = [pc EXCEPT ![p] = "ck_insert"]
               /\ req' = [req EXCEPT ![p].total_milhas = totals.total_milhas,
                                     ![p].total_custo = totals.total_custo]
               /\ ret' = ret
    /\ UNCHANGED <<store, clock, seqvars, pend, row_lock>>

\* An INSERT that conflicts with another open transaction's uncommitted row
\* on the unique index waits for that transaction to end.
insert_waits(p, row) ==
    \E q \in Procs \ {p} : pc[q] = "ck_commit" /\ unique_violation(pend[q], row)

\* confirm_cpm_checkpoint: _insert_cpm_checkpoint; UniqueViolation rolls
\* back and is reported as the period being closed.
CkInsert(p) ==
    /\ pc[p] = "ck_insert"
    /\ LET row == CheckpointRow(1, 1, req[p].total_milhas, req[p].total_custo,
                                req[p].tipo, req[p].periodo_referencia, next_created_at)
       IN IF unique_violation(cpm_checkpoints, row)
          THEN /\ pc' = [pc EXCEPT ![p] = "idle"]
               /\ ret' = [ret EXCEPT ![p] = "AlreadyClosed"]
               /\ UNCHANGED <<store, clock, seqvars, req, pend, row_lock>>
          ELSE /\ ~insert_waits(p, row)
               /\ CanInsert(1)
               /\ pend' = [pend EXCEPT ![p] = {row}]
               /\ clock' = next_created_at
               /\ pc' = [pc EXCEPT ![p] = "ck_commit"]
               /\ UNCHANGED <<store, seqvars, req, ret, row_lock>>

\* confirm_cpm_checkpoint: conn.commit()
CkCommit(p) ==
    /\ pc[p] = "ck_commit"
    /\ cpm_checkpoints' = cpm_checkpoints \cup pend[p]
    /\ pend' = [pend EXCEPT ![p] = {}]
    /\ pc' = [pc EXCEPT ![p] = "idle"]
    /\ ret' = [ret EXCEPT ![p] = "confirm_cpm_checkpoint"]
    /\ UNCHANGED <<transactions, transaction_batches, subscriptions, clock, seqvars, req,
                   row_lock>>

NextConc ==
    \E p \in Procs :
        \/ McBegin(p)
        \/ McSelect(p)
        \/ McSum(p)
        \/ McInsert(p)
        \/ McCommit(p)
        \/ CkBegin(p)
        \/ CkSelect(p)
        \/ CkTotals(p)
        \/ CkInsert(p)
        \/ CkCommit(p)

SpecConc == InitSub /\ [][NextConc]_vars

(***************************************************************************)
(* Failure specification: one caller runs save_complex_transfer and        *)
(* apply_cpm_adjustment one SQL statement at a time, and any statement,    *)
(* the commit included, may raise.  The exception leaves the connection    *)
(* block, which rolls the transaction back, and the tool returns           *)
(* _sanitize_error's message.                                              *)
(***************************************************************************)
FailProcs == {1}

\* A pool whose connections commit every statement as it runs.
autocommit_on == TRUE

\* ConnectionPool(conninfo, min_size, max_size, timeout, name): no autocommit
\* is asked for, so a connection's statements take effect at its commit.
autocommit == FALSE

\* The rows of each table among a caller's uncommitted rows.
PendTx(p) == {r \in pend[p] : "modo_aquisicao" \in DOMAIN r}
PendBatches(p) == {r \in pend[p] : "transaction_id" \in DOMAIN r}
PendChk(p) == {r \in pend[p] : "periodo_referencia" \in DOMAIN r}

\* cur.execute(INSERT ...) of caller p: the rows reach the tables at once under
\* autocommit, and wait for the commit otherwise.
execute_insert(p, txs, batches, chks) ==
    IF autocommit
    THEN /\ transactions' = transactions \cup txs
         /\ transaction_batches' = transaction_batches \cup batches
         /\ cpm_checkpoints' = cpm_checkpoints \cup chks
         /\ pend' = pend
    ELSE /\ pend' = [pend EXCEPT ![p] = @ \cup txs \cup batches \cup chks]
         /\ UNCHANGED <<transactions, transaction_batches, cpm_checkpoints>>

\* save_complex_transfer: the date, the account and the programs are resolved
\* and the validations run.
TrBegin(p) ==
    \E x \in TransferIn :
        /\ pc[p] = "idle"
        /\ IF transfer_validation(x[1], x[2], x[3], x[5]) # "OK"
           THEN /\ ret' = [ret EXCEPT ![p] = transfer_validation(x[1], x[2], x[3], x[5])]
                /\ UNCHANGED <<pc, req>>
           ELSE /\ pc' = [pc EXCEPT ![p] = "tr_tx"]
                /\ req' = [req EXCEPT ![p] = [NoRequest EXCEPT !.transfer = x]]
                /\ ret' = [ret EXCEPT ![p] = "none"]
        /\ UNCHANGED <<store, clock, seqvars, pend, row_lock>>

\* save_complex_transfer: INSERT INTO transactions ... RETURNING id
TrInsertTx(p) ==
    /\ pc[p] = "tr_tx"
    /\ CanInsert(1)
    /\ LET x == req[p].transfer
           custo_total == x[3] * x[4] + x[6]
       IN execute_insert(p, {TxRow(1, "TRANSFERENCIA_BANCO_CIA", 2, 1, x[1], x[2],
                                   total_milhas_of(x[1], x[2]), custo_total, NULL,
                                   next_created_at)}, {}, {})
    /\ clock' = next_created_at
    /\ req' = [req EXCEPT ![p].tx_id = next_created_at]
    /\ pc' = [pc EXCEPT ![p] = "tr_organico"]
    /\ UNCHANGED <<subscriptions, seqvars, ret, row_lock>>

\* save_complex_transfer: if lote_organico_qtd > 0, INSERT the ORGANICO lot.
TrInsertOrganico(p) ==
    /\ pc[p] = "tr_organico"
    /\ LET x == req[p].transfer
       IN execute_insert(p, {}, transfer_batches(req[p].tx_id, x[3], x[3] * x[4], 0, x[6]), {})
    /\ pc' = [pc EXCEPT ![p] = "tr_pago"]
    /\ UNCHANGED <<subscriptions, clock, seqvars, req, ret, row_lock>>

\* save_complex_transfer: if lote_pago_qtd > 0, INSERT the PAGO lot.
TrInsertPago(p) ==
    /\ pc[p] = "tr_pago"
    /\ LET x == req[p].transfer
       IN execute_insert(p, {}, transfer_batches(req[p].tx_id, 0, 0, x[5], x[6]), {})
    /\ pc' = [pc EXCEPT ![p] = "tr_commit"]
    /\ UNCHANGED <<subscriptions, clock, seqvars, req, ret, row_lock>>

\* apply_cpm_adjustment: the argument checks, the lookups and, for CUSTO, the
\* check of the resulting cost.
AdjBegin(p) ==
    \E x \in AdjustmentIn :
        /\ pc[p] = "idle"
        /\ IF adjustment_args(x[1], x[2]) # "OK"
           THEN /\ ret' = [ret EXCEPT ![p] = adjustment_args(x[1], x[2])]
                /\ UNCHANGED <<pc, req>>
           ELSE IF x[1] = "CUSTO" /\ negative_cost(get_cpm_totals(1, 1).total_custo + x[2])
           THEN /\ ret' = [ret EXCEPT ![p] = "NegativeCost"]
                /\ UNCHANGED <<pc, req>>
           ELSE /\ pc' = [pc EXCEPT ![p] = "adj_tx"]
                /\ req' = [req EXCEPT ![p] = [NoRequest EXCEPT !.ajuste = x]]
                /\ ret' = [ret EXCEPT ![p] = "none"]
        /\ UNCHANGED <<store, clock, seqvars, pend, row_lock>>

\* apply_cpm_adjustment: INSERT INTO transactions ... 'AJUSTE_CPM'
AdjInsertTx(p) ==
    /\ pc[p] = "adj_tx"
    /\ CanInsert(2)
    /\ LET x == req[p].ajuste
           milhas_credit == IF x[1] = "CUSTO" THEN 0 ELSE x[2]
           custo == IF x[1] = "CUSTO" THEN x[2] ELSE 0
       IN execute_insert(p, {TxRow(1, "AJUSTE_CPM", NULL, 1, milhas_credit, 0, milhas_credit,
                                   custo, NULL, next_created_at)}, {}, {})
    /\ clock' = next_created_at
    /\ req' = [req EXCEPT ![p].tx_id = next_created_at]
    /\ pc' = [pc EXCEPT ![p] = "adj_checkpoint"]
    /\ UNCHANGED <<subscriptions, seqvars, ret, row_lock>>

\* apply_cpm_adjustment: _get_cpm_totals on the same connection, then
\* _insert_cpm_checkpoint of the AUTO checkpoint.
AdjCheckpoint(p) ==
    /\ pc[p] = "adj_checkpoint"
    /\ LET totals == cpm_totals(transactions \cup PendTx(p), cpm_checkpoints, 1, 1)
       IN execute_insert(p, {}, {}, {CheckpointRow(1, 1, totals.total_milhas, totals.total_custo,
                                                   "AUTO", "", next_created_at)})
    /\ clock' = next_created_at
    /\ pc' = [pc EXCEPT ![p] = "adj_commit"]
    /\ UNCHANGED <<subscriptions, seqvars, req, ret, row_lock>>

\* conn.commit() of either tool.
FailCommit(p) ==
    /\ pc[p] \in {"tr_commit", "adj_commit"}
    /\ transactions' = transactions \cup PendTx(p)
    /\ transaction_batches' = transaction_batches \cup PendBatches(p)
    /\ cpm_checkpoints' = cpm_checkpoints \cup PendChk(p)
    /\ pend' = [pend EXCEPT ![p] = {}]
    /\ ret' = [ret EXCEPT ![p] = IF pc[p] = "tr_commit" THEN "save_complex_transfer"
                                  ELSE "apply_cpm_adjustment"]
    /\ pc' = [pc EXCEPT ![p] = "idle"]
    /\ UNCHANGED <<subscriptions, clock, seqvars, req, row_lock>>

\* The tool the caller is inside.
tool_running(p) ==
    IF pc[p] \in {"tr_tx", "tr_organico", "tr_pago", "tr_commit"}
    THEN "save_complex_transfer" ELSE "apply_cpm_adjustment"

\* The statement the caller is at raises an exception of text e (the store
\* fails): the connection block rolls back and the tool returns
\* _sanitize_error's message, with the reference ref it draws.
FailWith(p, e, ref) ==
    /\ pc[p] \in {"tr_tx", "tr_organico", "tr_pago", "tr_commit",
                  "adj_tx", "adj_checkpoint", "adj_commit"}
    /\ pend' = [pend EXCEPT ![p] = {}]
    /\ ret' = [ret EXCEPT ![p] = sanitize_error(tool_running(p), e, ref).status]
    /\ req' = [req EXCEPT ![p].ref = sanitize_error(tool_running(p), e, ref).ref]
    /\ pc' = [pc EXCEPT ![p] = "idle"]
    /\ UNCHANGED <<store, clock, seqvars, row_lock>>

StoreFailure(p) == \E e \in StoreErrors, ref \in Refs : FailWith(p, e, ref)

NextFail ==
    \E p \in FailProcs :
        \/ TrBegin(p)
        \/ TrInsertTx(p)
        \/ TrInsertOrganico(p)
        \/ TrInsertPago(p)
        \/ AdjBegin(p)
        \/ AdjInsertTx(p)
        \/ AdjCheckpoint(p)
        \/ FailCommit(p)
        \/ StoreFailure(p)

SpecFail == Init /\ [][NextFail]_vars

(***************************************************************************)
(* Two-pair specification: the tools called one at a time on the pairs of  *)
(* account 1 with programs 1 and 2.                                        *)
(***************************************************************************)
\* <<tipo, periodo_referencia>> of the confirmations made on the two pairs.
PairCheckpointIn == {<<"MANUAL", "">>, <<"MENSAL", "2026-10">>}

\* <<tipo_ajuste, valor>> of the adjustments made on the two pairs.
PairAdjustmentIn == {<<"MILHAS", 2>>, <<"CUSTO", 3000>>}

\* The other program of the two.
outro_programa(pr) == IF pr = 1 THEN 2 ELSE 1

PairSaveSimple(pr) == save_simple_transaction(1, pr, 2, 3000, 0, "")

PairSaveTransfer(pr) ==
    save_complex_transfer(1, outro_programa(pr), pr, 2, 50, 1, 1000, 1, 3000, "")

PairMonthlyCredit(pr) == process_monthly_credit(1, pr, 0)

PairIntraClub(pr) == register_intra_club_transaction(1, pr, 2, 3000, 0)

PairConfirmCheckpoint(pr) ==
    \E x \in PairCheckpointIn : confirm_cpm_checkpoint(1, pr, x[1], x[2])

PairApplyAdjustment(pr) ==
    \E x \in PairAdjustmentIn : apply_cpm_adjustment(1, pr, x[1], x[2])

PairPreviewDelete(pr) == delete_last_transaction(1, pr)

PairPreviewDeleteConta == delete_last_transaction(1, NULL)

NextPairs ==
    \/ \E pr \in Programs :
           \/ PairSaveSimple(pr)
           \/ PairSaveTransfer(pr)
           \/ PairMonthlyCredit(pr)
           \/ PairIntraClub(pr)
           \/ PairConfirmCheckpoint(pr)
           \/ PairApplyAdjustment(pr)
           \/ PairPreviewDelete(pr)
    \/ PairPreviewDeleteConta
    \/ ConfirmDelete

SpecPairs == InitSub /\ [][NextPairs]_vars

(***************************************************************************)
(* Pool specification: the callers run Database.initialize and             *)
(* Database.get_connection from the start of the process, one statement at *)
(* a time; the class takes no lock.                                        *)
(***************************************************************************)
\* cls._pool = None, with no pool created yet.
NoPool == [current |-> NULL, created |-> 0]

InitPool ==
    /\ transactions = {}
    /\ transaction_batches = {}
    /\ subscriptions = {}
    /\ cpm_checkpoints = {}
    /\ clock = 1
    /\ tokens = {}
    /\ result = [status |-> "none", id |-> NULL, aviso_chk |-> FALSE]
    /\ pc = [p \in Procs |-> "idle"]
    /\ req = [p \in Procs |-> NoRequest]
    /\ pend = [p \in Procs |-> {}]
    /\ ret = [p \in Procs |-> "none"]
    /\ row_lock = NULL
    /\ db_pool = NoPool

\* Where a caller goes when initialize() returns: back into get_connection,
\* or out of the call.
after_initialize(p) == IF req[p].tipo = "get_connection" THEN "get_return" ELSE "idle"

\* A caller enters Database.initialize().
DbInitialize(p) ==
    /\ pc[p] = "idle"
    /\ pc' = [pc EXCEPT ![p] = "init_check"]
    /\ req' = [req EXCEPT ![p] = [NoRequest EXCEPT !.tipo = "initialize"]]
    /\ ret' = [ret EXCEPT ![p] = "none"]
    /\ UNCHANGED <<store, clock, tokens, result, pend, row_lock, db_pool>>

\* A caller enters Database.get_connection().
DbGetConnection(p) ==
    /\ pc[p] = "idle"
    /\ pc' = [pc EXCEPT ![p] = "get_check"]
    /\ req' = [req EXCEPT ![p] = [NoRequest EXCEPT !.tipo = "get_connection"]]
    /\ ret' = [ret EXCEPT ![p] = "none"]
    /\ UNCHANGED <<store, clock, tokens, result, pend, row_lock, db_pool>>

\* get_connection: if cls._pool is None: cls.initialize()
DbGetCheck(p) ==
    /\ pc[p] = "get_check"
    /\ pc' = [pc EXCEPT ![p] = IF db_pool.current = NULL THEN "init_check" ELSE "get_return"]
    /\ UNCHANGED <<store, clock, tokens, result, req, pend, ret, row_lock, db_pool>>

\* initialize: if cls._pool is None
DbInitCheck(p) ==
    /\ pc[p] = "init_check"
    /\ pc' = [pc EXCEPT ![p] = IF db_pool.current = NULL THEN "init_create"
                                ELSE after_initialize(p)]
    /\ ret' = [ret EXCEPT ![p] = IF db_pool.current # NULL /\ after_initialize(p) = "idle"
                                  THEN "initialize" ELSE ret[p]]
    /\ UNCHANGED <<store, clock, tokens, result, req, pend, row_lock, db_pool>>

\* initialize: cls._pool = ConnectionPool(...)
DbInitCreate(p) ==
    /\ pc[p] = "init_create"
    /\ db_pool' = [current |-> db_pool.created + 1, created |-> db_pool.created + 1]
    /\ pc' = [pc EXCEPT ![p] = after_initialize(p)]
    /\ ret' = [ret EXCEPT ![p] = IF after_initialize(p) = "idle" THEN "initialize" ELSE ret[p]]
    /\ UNCHANGED <<store, clock, tokens, result, req, pend, row_lock>>

\* get_connection: return cls._pool.connection(); tx_id of the caller's locals
\* records the pool the connection is of.
DbGetReturn(p) ==
    /\ pc[p] = "get_return"
    /\ pc' = [pc EXCEPT ![p] = "idle"]
    /\ req' = [req EXCEPT ![p].tx_id = db_pool.current]
    /\ ret' = [ret EXCEPT ![p] = "get_connection"]
    /\ UNCHANGED <<store, clock, tokens, result, pend, row_lock, db_pool>>

NextPool ==
    \E p \in Procs :
        \/ DbInitialize(p)
        \/ DbGetConnection(p)
        \/ DbGetCheck(p)
        \/ DbInitCheck(p)
        \/ DbInitCreate(p)
        \/ DbGetReturn(p)

SpecPool == InitPool /\ [][NextPool]_vars

(***************************************************************************)
(* Read-only specification: get_client_panorama and                        *)
(* calculate_cpm_adjustment called on a store as found.                    *)
(***************************************************************************)
\* <<tipo, periodo_referencia>> of the checkpoint pair (1, 1) may hold.
ReadCheckpointIn ==
    {<<"MENSAL", "2026-10">>, <<"MENSAL", "2026-09">>, <<"MANUAL", "">>,
     <<"MANUAL", "2026-10">>, <<"AUTO", "">>}

\* How many purchases of 2 units for 0.03 pair (1, 1) holds after its
\* checkpoint (or in all, without one).
MaxDelta == 11

\* cpm_alvo, in thousandths of a centavo per thousand units: 16.00, 10.00,
\* 15.00, 14.995, 13.18 and 0.
CpmAlvoIn == {1600000, 1000000, 1500000, 1499500, 1318000, 0}

\* n purchases of 2 units for 0.03 on pair (1, 1), stamped after ts.
Compras(n, ts) ==
    {TxRow(1, "COMPRA_SIMPLES", 1, 1, 2, 0, 2, 3000, NULL, ts + i) : i \in 1..n}

\* The purchase of 10,000 units for 350.00 and the transfer of 50,000 units
\* at 100% (30,000 organic at 10.00, 20,000 paid for 800.00) into program 1.
HistoricoExemplo ==
    {TxRow(1, "COMPRA_SIMPLES", 1, 1, 10000, 0, 10000, 35000000, NULL, 2),
     TxRow(1, "TRANSFERENCIA_BANCO_CIA", 2, 1, 50000, 100, total_milhas_of(50000, 100),
           30000 * 1000 + 80000000, NULL, 3)}

InitRead ==
    /\ \/ /\ cpm_checkpoints = {}
          /\ \/ \E n \in 0..MaxDelta : transactions = Compras(n, 1)
             \/ transactions = HistoricoExemplo
       \/ \E x \in ReadCheckpointIn, n \in 0..MaxDelta :
             /\ cpm_checkpoints = {CheckpointRow(1, 1, 2, 3000, x[1], x[2], 2)}
             /\ transactions = Compras(1, 0) \cup Compras(n, 2)
    /\ transaction_batches = {}
    /\ subscriptions = {}
    /\ clock = MaxClock
    /\ tokens = {}
    /\ result = [status |-> "none", id |-> NULL, aviso_chk |-> FALSE]
    /\ pc = [p \in Procs |-> "idle"]
    /\ req = [p \in Procs |-> NoRequest]
    /\ pend = [p \in Procs |-> {}]
    /\ ret = [p \in Procs |-> "none"]
    /\ row_lock = NULL
    /\ db_pool = PoolReady

GetPanorama == \E a \in AccountNames : get_client_panorama(a)

CalculateAdjustment ==
    \E pr \in ProgramNames, alvo \in CpmAlvoIn : calculate_cpm_adjustment(1, pr, alvo)

NextRead ==
    \/ GetPanorama
    \/ CalculateAdjustment

SpecRead == InitRead /\ [][NextRead]_vars

(***************************************************************************)
(* Properties of the recorder, the subscription manager, the deletion      *)
(* protocol and the reconciliation engine.                                 *)
(***************************************************************************)
\* The lots of transaction t.
BatchesOf(t) == {b \in transaction_batches : b.transaction_id = t.id}

\* The transactions linked to subscription s.
LinkedTo(s, txs) == {t \in txs : t.subscription_id = s.id}

\* The monthly credits inserted by open transactions and not yet committed.
PendingCredits == UNION {IF pc[p] = "mc_commit" THEN pend[p] ELSE {} : p \in Procs}

\* C1: every persisted transfer has lots whose units sum exactly to its
\* milhas_base, and a save_complex_transfer whose lots do not sum to
\* milhas_base returns the validation error and writes no transaction and no lot.
C1_TransferBatchesSum ==
    /\ [](\A t \in transactions :
            t.modo_aquisicao = "TRANSFERENCIA_BANCO_CIA" =>
                SumLotes(BatchesOf(t)) = t.milhas_base)
    /\ [][result'.status = "ValidationError: soma dos lotes" =>
              /\ transactions' = transactions
              /\ transaction_batches' = transaction_batches]_vars

\* A transfer of two lots is stored, and a later transfer whose lots do not
\* sum to its base has been rejected.
C1_Witness ==
    /\ result.status = "ValidationError: soma dos lotes"
    /\ \E t \in transactions : /\ t.modo_aquisicao = "TRANSFERENCIA_BANCO_CIA"
                                /\ Cardinality(BatchesOf(t)) = 2

\* C2: for every subscription, the credited units of the transactions linked
\* to it sum to at most the contracted units, in every state reached by
\* subscription registrations and corrections, monthly credits, ad hoc entries
\* in the subscription, and deletions.
C2_NoOvercredit ==
    \A s \in subscriptions :
        SumMilhas(LinkedTo(s, transactions)) <= s.milhas_garantidas_ciclo

\* C3: two process_monthly_credit calls running concurrently on the same
\* contract never jointly overcredit: the credits committed and the credits
\* inserted by open transactions sum to at most the contracted units.
C3_NoJointOvercredit ==
    \A s \in subscriptions :
        SumMilhas(LinkedTo(s, transactions \cup PendingCredits))
            <= s.milhas_garantidas_ciclo

\* Caller 1 has inserted a credit of 11 of the 12 units and not committed;
\* caller 2, asking for 11 too, is at the SELECT ... FOR UPDATE.
C3_Witness ==
    /\ pc[1] = "mc_commit" /\ req[1].milhas_do_mes = 11
    /\ pc[2] = "mc_select" /\ req[2].milhas_do_mes = 11

\* C4: process_monthly_credit inserts a CLUBE_ASSINATURA transaction only when
\* the amount is at most the contract's remaining balance, and a blocked call
\* leaves transactions, subscriptions and checkpoints as they were.
C4_MonthlyCreditGuard ==
    [][/\ \A t \in transactions' \ transactions :
              t.modo_aquisicao = "CLUBE_ASSINATURA" =>
                  \E s \in subscriptions :
                      /\ s.id = t.subscription_id
                      /\ t.milhas_creditadas <=
                             s.milhas_garantidas_ciclo - SumMilhas(LinkedTo(s, transactions))
       /\ result'.status = "OvercreditBlocked" =>
              /\ transactions' = transactions
              /\ subscriptions' = subscriptions
              /\ cpm_checkpoints' = cpm_checkpoints]_vars

\* A monthly credit is stored and a later one has been blocked.
C4_Witness ==
    /\ result.status = "OvercreditBlocked"
    /\ \E t \in transactions : t.modo_aquisicao = "CLUBE_ASSINATURA"

\* C5: a transaction is deleted only if, when it is deleted, it is the most
\* recently created transaction of its account/program pair.
C5_OnlyLatestDeleted ==
    [][\A t \in transactions \ transactions' :
          \A u \in TxOfPair(t.account_id, t.companhia_referencia_id) :
              u.created_at <= t.created_at]_vars

\* C6: a successful confirm_delete_transaction removes exactly the identified
\* transaction and its lots, removes every checkpoint of the transaction's
\* pair created after it and no other checkpoint, and leaves every other
\* transaction and every subscription unchanged.
C6_ConfirmDeleteFrame ==
    [][result'.status = "confirm_delete_transaction" =>
          \E t \in transactions :
              /\ t.id = result'.id
              /\ transactions' = transactions \ {t}
              /\ transaction_batches' = transaction_batches \ BatchesOf(t)
              /\ cpm_checkpoints' =
                    {c \in cpm_checkpoints :
                        ~(/\ c.account_id = t.account_id
                          /\ c.programa_id = t.companhia_referencia_id
                          /\ c.created_at > t.created_at)}
              /\ subscriptions' = subscriptions]_vars

\* A confirmed deletion has removed a checkpoint with its transaction and
\* left another transaction in place.
C6_Witness ==
    /\ result.status = "confirm_delete_transaction"
    /\ result.aviso_chk
    /\ transactions # {}

\* C7: confirm_delete_transaction with the id of a transaction that does not
\* exist returns NotFound and changes no table; with the id of one that
\* exists it does not return NotFound.
C7_ConfirmDeleteNotFound ==
    [][result'.status \in {"confirm_delete_transaction", "NotFound"} =>
          IF \E t \in transactions : t.id = result'.id
          THEN result'.status = "confirm_delete_transaction"
          ELSE /\ result'.status = "NotFound"
               /\ UNCHANGED store]_vars

\* The second confirmation with the same id has failed while other
\* transactions and a checkpoint are stored.
C7_Witness ==
    /\ result.status = "NotFound"
    /\ transactions # {}
    /\ cpm_checkpoints # {}

C9_OneMensalPerPeriod ==
    /\ [](\A c1, c2 \in cpm_checkpoints :
            (/\ c1.tipo = "MENSAL" /\ c2.tipo = "MENSAL"
             /\ c1.account_id = c2.account_id
             /\ c1.programa_id = c2.programa_id
             /\ c1.periodo_referencia = c2.periodo_referencia) => c1 = c2)
    /\ [][\A p \in Procs :
              (/\ pc[p] = "ck_select"
               /\ pc'[p] # "ck_select"
               /\ req[p].tipo = "MENSAL"
               /\ \E c \in ChkOfPair(1, 1) :
                      c.periodo_referencia = req[p].periodo_referencia)
              => /\ ret'[p] = "AlreadyClosed"
                 /\ pc'[p] = "idle"
                 /\ pend'[p] = pend[p]
                 /\ cpm_checkpoints' = cpm_checkpoints]_vars

\* Caller 1 has inserted the MENSAL checkpoint of the period and not
\* committed; caller 2 has found the period open and is at its INSERT.
C9_Witness ==
    /\ pc[1] = "ck_commit" /\ req[1].tipo = "MENSAL"
    /\ pc[2] = "ck_insert" /\ req[2].tipo = "MENSAL"
    /\ req[1].periodo_referencia = req[2].periodo_referencia

\* C10: every persisted transaction has
\* milhas_creditadas = floor(milhas_base * (1 + bonus_percent / 100)).
C10_CreditedIsFloor ==
    \A t \in transactions :
        t.milhas_creditadas = floor_div(t.milhas_base * (100 + t.bonus_percent), 100)

\* C11: save_complex_transfer is atomic: in every state, also while a call is
\* running and after it has failed at any statement, every stored transfer
\* has all its lots (they sum to its milhas_base) and every stored lot has
\* its transfer.
C11_TransferAtomic ==
    /\ \A t \in transactions :
           t.modo_aquisicao = "TRANSFERENCIA_BANCO_CIA" =>
               /\ SumLotes(BatchesOf(t)) = t.milhas_base
               /\ \A b \in BatchesOf(t) : b.milhas_qtd > 0
    /\ \A b \in transaction_batches :
           \E t \in transactions : t.id = b.transaction_id

\* A transfer has failed after its transaction was inserted (the row was
\* stamped) and nothing of it is stored, while an earlier transfer is.
C11_Witness ==
    /\ ret[1] = "InternalError: save_complex_transfer"
    /\ transactions # {}
    /\ \A t \in transactions : t.created_at < clock

\* C14: right after a successful apply_cpm_adjustment the latest checkpoint
\* of the pair is a new AUTO checkpoint whose totals are the totals before the
\* adjustment plus the adjustment, and no transaction of the pair is in the
\* delta after it.
C14_AutoCheckpointFoldsAdjustment ==
    [][result'.status = "apply_cpm_adjustment" =>
          \E t \in transactions' \ transactions :
              LET antes == get_cpm_totals(t.account_id, t.companhia_referencia_id)
                  depois == cpm_totals(transactions', cpm_checkpoints',
                                       t.account_id, t.companhia_referencia_id)
              IN /\ t.modo_aquisicao = "AJUSTE_CPM"
                 /\ depois.delta = {}
                 /\ \E c \in depois.checkpoint :
                        /\ c \notin cpm_checkpoints
                        /\ c.tipo = "AUTO"
                        /\ c.total_milhas = antes.total_milhas + t.milhas_creditadas
                        /\ c.total_custo = antes.total_custo + t.custo_total]_vars

\* An adjustment has just been applied to a pair that holds a purchase.
C14_Witness ==
    /\ result.status = "apply_cpm_adjustment"
    /\ \E t \in transactions : t.modo_aquisicao = "COMPRA_SIMPLES"
    /\ \E t \in transactions : t.modo_aquisicao = "AJUSTE_CPM" /\ t.custo_total < 0

\* C15: apply_cpm_adjustment stores the AJUSTE_CPM transaction and its AUTO
\* checkpoint together or not at all: in every state, also while a call is
\* running and after it has failed at any statement, every stored adjustment
\* has the AUTO checkpoint stamped right after it and every stored AUTO
\* checkpoint has its adjustment.
C15_AdjustmentAtomic ==
    /\ \A t \in transactions :
           t.modo_aquisicao = "AJUSTE_CPM" =>
               \E c \in ChkOfPair(t.account_id, t.companhia_referencia_id) :
                   c.tipo = "AUTO" /\ c.created_at = t.created_at + 1
    /\ \A c \in cpm_checkpoints :
           c.tipo = "AUTO" =>
               \E t \in TxOfPair(c.account_id, c.programa_id) :
                   t.modo_aquisicao = "AJUSTE_CPM" /\ c.created_at = t.created_at + 1

\* An adjustment has failed after its transaction was inserted (the row was
\* stamped) and neither the transaction nor a checkpoint of it is stored.
C15_Witness ==
    /\ ret[1] = "InternalError: apply_cpm_adjustment"
    /\ clock > 1
    /\ \A t \in transactions : t.created_at < clock
    /\ \A c \in cpm_checkpoints : c.created_at < clock

\* C16: a CUSTO adjustment that would make the pair's cumulative cost
\* negative is rejected and writes nothing: every cost adjustment written
\* keeps the cost non-negative, and an adjustment applied to a non-negative
\* cumulative cost leaves it non-negative.
C16_NoNegativeCost ==
    [][/\ result'.status = "NegativeCost" => UNCHANGED store
       /\ result'.status = "apply_cpm_adjustment" =>
              \A t \in transactions' \ transactions :
                  LET antes == get_cpm_totals(t.account_id, t.companhia_referencia_id)
                      depois == cpm_totals(transactions', cpm_checkpoints',
                                           t.account_id, t.companhia_referencia_id)
                  IN /\ t.custo_total # 0 => antes.total_custo + t.custo_total >= 0
                     /\ antes.total_custo >= 0 => depois.total_custo >= 0]_vars

\* A cost adjustment has been rejected on a pair that holds transactions.
C16_Witness ==
    /\ result.status = "NegativeCost"
    /\ transactions # {}

\* C17: confirm_cpm_checkpoint returns NoData and inserts nothing only when
\* the pair's totals have no positive units; a confirmation that succeeds
\* inserts exactly one checkpoint, on totals with positive units, whose
\* total_milhas and total_custo are the totals at that moment.
C17_CheckpointTotals ==
    [][/\ result'.status = "NoData" =>
              /\ UNCHANGED store
              /\ get_cpm_totals(1, 1).total_milhas <= 0
       /\ result'.status = "confirm_cpm_checkpoint" =>
              /\ transactions' = transactions
              /\ \E c \in cpm_checkpoints' \ cpm_checkpoints :
                     LET totals == get_cpm_totals(c.account_id, c.programa_id)
                     IN /\ cpm_checkpoints' = cpm_checkpoints \cup {c}
                        /\ totals.total_milhas > 0
                        /\ c.total_milhas = totals.total_milhas
                        /\ c.total_custo = totals.total_custo]_vars

\* A confirmation has returned NoData on a pair that holds transactions
\* (their units do not sum to a positive total).
C17_Witness ==
    /\ result.status = "NoData"
    /\ TxOfPair(1, 1) # {}

\* C18: register_subscription with valid arguments stores one active
\* contract: with is_mensal, of 12 times the supplied value and units;
\* without, of the supplied value and units.
C18_RegisterPersistsContract ==
    [][\A x \in {<<24000, 12, "07/02/2027", "", FALSE>>,
                 <<2000, 1, "07/02/2027", "hoje", TRUE>>} :
          register_subscription(1, 1, x[1], x[2], x[3], x[4], x[5]) =>
              \E c \in subscriptions' \ subscriptions :
                  /\ subscriptions' = subscriptions \cup {c}
                  /\ c.ativo
                  /\ c.valor_total_ciclo = IF x[5] THEN 12 * x[1] ELSE x[1]
                  /\ c.milhas_garantidas_ciclo = IF x[5] THEN 12 * x[2] ELSE x[2]]_vars

C20_IntraClubLinked ==
    [][/\ result'.status = "NoActiveSubscription" =>
              /\ UNCHANGED store
              /\ ActiveSubs(1, 1) = {}
       /\ result'.status = "register_intra_club_transaction" =>
              \E t \in transactions' \ transactions :
                  LET ativos == ActiveSubs(t.account_id, t.companhia_referencia_id)
                  IN /\ transactions' = transactions \cup {t}
                     /\ ativos # {}
                     /\ t.subscription_id = Latest(ativos).id]_vars

\* An entry has just been written in the pair's active subscription.
C20_Witness ==
    /\ result.status = "register_intra_club_transaction"
    /\ \E t \in transactions :
           /\ t.modo_aquisicao \in {"ORGANICO", "COMPRA_SIMPLES"}
           /\ \E s \in subscriptions : s.ativo /\ s.id = t.subscription_id

\* C21: a successful save_complex_transfer adds floor(milhas_base * (1 +
\* bonus/100)) units and lote_organico_qtd/1000 * lote_organico_cpm +
\* lote_pago_custo_total of cost to the totals of the destination pair.
C21_TransferAddsToTotals ==
    [][\A x \in TransferIn :
          (/\ save_complex_transfer(1, 2, 1, x[1], x[2], x[3], x[4], x[5], x[6], "")
           /\ result'.status = "save_complex_transfer") =>
              LET antes == get_cpm_totals(1, 1)
                  depois == cpm_totals(transactions', cpm_checkpoints', 1, 1)
              IN /\ depois.total_milhas =
                        antes.total_milhas + floor_div(x[1] * (100 + x[2]), 100)
                 /\ depois.total_custo = antes.total_custo + x[3] * x[4] + x[6]]_vars

\* C22: delete_last_transaction changes no table, whatever it returns; and
\* its summary warns of a checkpoint's invalidation exactly when a checkpoint
\* of the shown transaction's pair was created after that transaction.
C22_PreviewReadOnly ==
    [][\A a \in AccountNames, pr \in ProgramNames \cup {NULL} :
          delete_last_transaction(a, pr) =>
              /\ UNCHANGED store
              /\ result'.status = "delete_last_transaction" =>
                     \E t \in transactions :
                         /\ t.id = result'.id
                         /\ result'.aviso_chk =
                                (\E c \in cpm_checkpoints :
                                    /\ c.account_id = t.account_id
                                    /\ c.programa_id = t.companhia_referencia_id
                                    /\ c.created_at > t.created_at)]_vars

\* A preview has shown, without the warning, a transaction recorded after
\* the pair's checkpoint.
C22_Witness ==
    /\ result.status = "delete_last_transaction"
    /\ ~result.aviso_chk
    /\ \E t \in transactions : t.id = result.id /\ ChkOfPair(1, 1) # {}

\* C23: checkpoints are append-only: no step changes a field of a checkpoint
\* the table holds (a row of its id stays the row it was), and a checkpoint
\* leaves the table only in a confirm_delete_transaction.
C23_CheckpointsAppendOnly ==
    [][\A c \in cpm_checkpoints :
          /\ \A d \in cpm_checkpoints' : d.id = c.id => d = c
          /\ c \notin cpm_checkpoints' =>
                 /\ result'.status = "confirm_delete_transaction"
                 /\ result'.aviso_chk]_vars

\* The pair holds two checkpoints: the older one has gone through the
\* writing of the newer one.
C23_Witness ==
    \E c, d \in ChkOfPair(1, 1) :
        /\ c.created_at < d.created_at
        /\ result.status \in {"confirm_cpm_checkpoint", "apply_cpm_adjustment"}

\* C24 as stated: confirm_delete_transaction deletes a checkpoint of the pair
\* when the transaction it removes was created after that checkpoint.
C24_DeletedWhenTransactionLater ==
    [][result'.status = "confirm_delete_transaction" =>
          \A t \in transactions \ transactions' :
              \A c \in ChkOfPair(t.account_id, t.companhia_referencia_id) :
                  t.created_at > c.created_at => c \notin cpm_checkpoints']_vars

\* C24, amended: confirm_delete_transaction deletes a checkpoint of the pair
\* exactly when that checkpoint was created after the transaction it removes;
\* a checkpoint created before the transaction stays.
C24_DeletedWhenCheckpointLater ==
    [][result'.status = "confirm_delete_transaction" =>
          \A t \in transactions \ transactions' :
              \A c \in ChkOfPair(t.account_id, t.companhia_referencia_id) :
                  /\ c.created_at > t.created_at => c \notin cpm_checkpoints'
                  /\ c.created_at < t.created_at => c \in cpm_checkpoints']_vars

\* A transaction recorded after the pair's checkpoint has been deleted and
\* the checkpoint is still there.
C24_Witness ==
    /\ result.status = "confirm_delete_transaction"
    /\ \E c \in ChkOfPair(1, 1) : c.created_at < result.id

\* What the store holds of one pair: its transactions, checkpoints and
\* subscriptions, and its totals.
PairView(txs, chks, subs, acc_id, prog_id) ==
    [transactions |-> {t \in txs : t.account_id = acc_id /\ t.companhia_referencia_id = prog_id},
     checkpoints |-> {c \in chks : c.account_id = acc_id /\ c.programa_id = prog_id},
     subscriptions |-> {u \in subs : u.account_id = acc_id /\ u.programa_id = prog_id},
     totals |-> cpm_totals(txs, chks, acc_id, prog_id)]

\* A step that leaves pair (acc_id, prog_id) as it was.
PairUnchanged(acc_id, prog_id) ==
    PairView(transactions', cpm_checkpoints', subscriptions', acc_id, prog_id)
        = PairView(transactions, cpm_checkpoints, subscriptions, acc_id, prog_id)

HasMensal(acc_id, prog_id, periodo) ==
    \E c \in ChkOfPair(acc_id, prog_id) :
        c.tipo = "MENSAL" /\ split_periodo(c.periodo_referencia) = periodo

\* C26: a MANUAL or AUTO checkpoint never closes a month: a MENSAL
\* confirmation for a period the pair has no MENSAL checkpoint of is not
\* rejected as AlreadyClosed, and get_client_panorama takes the previous month
\* as closed only if the pair has a MENSAL checkpoint of it.
C26_OnlyMensalClosesMonth ==
    [][/\ \A pr \in Programs :
              (/\ confirm_cpm_checkpoint(1, pr, "MENSAL", "2026-10")
               /\ ~HasMensal(1, pr, <<2026, 10>>)) => result'.status # "AlreadyClosed"
       /\ \A pr \in Programs :
              tem_mensal(1, pr) => HasMensal(1, pr, mes_anterior)]_vars

\* C28: calculate_cpm_adjustment writes nothing; on a pair with positive
\* units it offers neither option when cpm_alvo is within 0.01 of the current
\* CPM, and otherwise offers Option A with delta_custo = cpm_alvo *
\* total_milhas / 1000 - total_custo (to the centavo), and Option B exactly
\* when cpm_alvo is below the current CPM (110,000 units / 1,450.00 with
\* target 16.00: +310.00 and no Option B).
C28_AdjustmentOptions ==
    [][\A alvo \in CpmAlvoIn :
          calculate_cpm_adjustment(1, 1, alvo) =>
              LET totals == get_cpm_totals(1, 1)
                  atual == cpm_of(totals.total_custo, totals.total_milhas)
                  inteiro == (alvo \div 1000) * totals.total_milhas - totals.total_custo
                  resto == (alvo % 1000) * totals.total_milhas
                  erro == 1000 * (result'.delta_custo - inteiro) - resto
              IN /\ UNCHANGED store
                 /\ totals.total_milhas > 0 =>
                        IF alvo - atual < 1000 /\ atual - alvo < 1000
                        THEN result'.status = "NoAdjustmentNeeded"
                        ELSE /\ result'.status = "calculate_cpm_adjustment"
                             /\ result'.opcao_a
                             /\ result'.delta_custo % 1000 = 0
                             /\ -500000 <= erro /\ erro <= 500000
                             /\ result'.opcao_b = (alvo < atual)
                             /\ (totals.total_milhas = 110000 /\ alvo = 1600000) =>
                                    (result'.delta_custo = 31000000 /\ ~result'.opcao_b)]_vars

\* C29: get_client_panorama gives each program with positive totals the
\* status critical iff the pair has no checkpoint, warning iff it has one and
\* (has no MENSAL checkpoint of the previous month or more than 10
\* transactions since its last checkpoint), and healthy otherwise.
C29_PanoramaStatus ==
    [][get_client_panorama(1) =>
          \A pr \in Programs :
              get_cpm_totals(1, pr).total_milhas > 0 =>
                  /\ result'.status = "get_client_panorama"
                  /\ pr \in DOMAIN result'.linhas
                  /\ result'.linhas[pr] =
                         IF ChkOfPair(1, pr) = {} THEN "SEM CHECKPOINT"
                         ELSE IF \/ ~HasMensal(1, pr, mes_anterior)
                                 \/ Cardinality(get_cpm_totals(1, pr).delta) > 10
                         THEN "ALERTA"
                         ELSE "OK"]_vars

\* C27: Database keeps a single pool: whatever calls of Database.initialize
\* and Database.get_connection have run, concurrent first calls included, at
\* most one ConnectionPool has ever been created, and exactly one once a call
\* has returned.
C27_SinglePool ==
    /\ db_pool.created <= 1
    /\ \A p \in Procs : ret[p] # "none" => db_pool.created = 1

\* C30: when the store fails inside a tool, what the caller gets is the
\* generic failure message and a reference, and it does not depend on the
\* text of the store's error: a failure with any other error text and the
\* same reference returns the same message.
C30_ErrorTextNotReturned ==
    [][\A p \in FailProcs, e \in StoreErrors, ref \in Refs :
          FailWith(p, e, ref) =>
              /\ ret'[p] \notin StoreErrors
              /\ req'[p].ref = ref
              /\ \A outro \in StoreErrors :
                     ret'[p] = sanitize_error(tool_running(p), outro, ref).status]_vars

\* An adjustment has failed and the caller holds the generic message with a
\* reference.
C30_Witness ==
    /\ ret[1] = "InternalError: apply_cpm_adjustment"
    /\ req[1].ref \in Refs
    /\ transactions = {}

\* C31: when a recording of a transaction on a pair has run concurrently
\* with a checkpoint confirmation of the pair and both have committed, each
\* transaction of the pair is counted exactly once by _get_cpm_totals (in the
\* base of the latest checkpoint or in the delta after it): the totals equal
\* the sums over the pair's transactions.
C31_ConcurrentCountedOnce ==
    (\A p \in Procs : pc[p] = "idle") =>
        /\ get_cpm_totals(1, 1).total_milhas = dashboard_totals(1, 1).total_milhas
        /\ get_cpm_totals(1, 1).total_custo = dashboard_totals(1, 1).total_custo

(***************************************************************************)
(* Undo specification: the tools called one at a time on the pairs of      *)
(* account 1; at some point the caller notes what the store holds of a     *)
(* pair, records one transaction on it, previews the deletion and confirms *)
(* it with the token of the preview, with no other call in between.        *)
(***************************************************************************)
\* What the store holds of pair (1, pr): its transactions, checkpoints,
\* subscriptions and totals, the lots of its transactions, and the remaining
\* balance of its active contract.
Estado(pr) ==
    [par |-> PairView(transactions, cpm_checkpoints, subscriptions, 1, pr),
     lotes |-> {b \in transaction_batches :
                   \E t \in TxOfPair(1, pr) : b.transaction_id = t.id},
     saldo |-> {<<u.id, saldo_restante_of(u)>> : u \in ActiveSubs(1, pr)}]

\* Where the caller is: "livre" with nothing noted, "anotado" once the pair
\* is noted and nothing has been inserted since, "registrado" after the
\* recording, "previsto" after the preview, "desfeito" after the deletion.
fase ==
    IF ~req[1].antes.nota THEN "livre"
    ELSE IF clock = req[1].antes.clock THEN "anotado"
    ELSE IF result.status = "delete_last_transaction" THEN "previsto"
    ELSE IF result.status = "confirm_delete_transaction" THEN "desfeito"
    ELSE "registrado"

\* The caller notes what the store holds of pair (1, pr).
UndoAnota(pr) ==
    /\ req' = [req EXCEPT ![1].antes =
                  [nota |-> TRUE, pr |-> pr, clock |-> clock, estado |-> Estado(pr)]]
    /\ UNCHANGED <<store, clock, tokens, result, pc, pend, ret, row_lock, db_pool>>

\* The caller drops its note.
UndoEsquece ==
    /\ req' = [req EXCEPT ![1].antes = NoRequest.antes]
    /\ UNCHANGED <<store, clock, tokens, result, pc, pend, ret, row_lock, db_pool>>

NextUndo ==
    \/ /\ fase = "livre"
       /\ \E pr \in Programs :
              \/ UndoAnota(pr)
              \/ PairSaveSimple(pr)
              \/ PairConfirmCheckpoint(pr)
    \/ /\ fase = "anotado"
       /\ \/ PairSaveSimple(req[1].antes.pr)
          \/ PairSaveTransfer(req[1].antes.pr)
          \/ PairMonthlyCredit(req[1].antes.pr)
          \/ PairIntraClub(req[1].antes.pr)
          \/ PairApplyAdjustment(req[1].antes.pr)
    \/ /\ fase = "registrado"
       /\ \/ PairPreviewDelete(req[1].antes.pr)
          \/ PairPreviewDeleteConta
    \/ /\ fase = "previsto"
       /\ ConfirmDelete
    \/ /\ fase = "desfeito"
       /\ UndoEsquece

SpecUndo == InitSub /\ [][NextUndo]_vars

C33_RecordDeleteRoundTrip ==
    (fase = "desfeito" /\ clock = req[1].antes.clock + 1) =>
        Estado(req[1].antes.pr) = req[1].antes.estado

\* A recording on a pair that held a checkpoint has been undone, and the
\* checkpoint is still there.
C33_Witness ==
    /\ fase = "desfeito"
    /\ clock = req[1].antes.clock + 1
    /\ req[1].antes.estado.par.checkpoints # {}
    /\ ChkOfPair(1, req[1].antes.pr) # {}

\* C35: every stored checkpoint has total units above zero, whether
\* confirm_cpm_checkpoint or apply_cpm_adjustment (AUTO) inserted it.
C35_CheckpointUnitsPositive ==
    \A c \in cpm_checkpoints : c.total_milhas > 0

(***************************************************************************)
(* Reopening specification: the store holds one purchase of pair (1, 1)    *)
(* when the toolkit attaches to it; purchases, confirmations and deletions *)
(* are then called one at a time on the two pairs of account 1.            *)
(***************************************************************************)
InitReopen ==
    /\ transactions = Compras(1, 0)
    /\ transaction_batches = {}
    /\ subscriptions = {}
    /\ cpm_checkpoints = {}
    /\ clock = 1
    /\ tokens = {}
    /\ result = [status |-> "none", id |-> NULL, aviso_chk |-> FALSE]
    /\ pc = [p \in Procs |-> "idle"]
    /\ req = [p \in Procs |-> NoRequest]
    /\ pend = [p \in Procs |-> {}]
    /\ ret = [p \in Procs |-> "none"]
    /\ row_lock = NULL
    /\ db_pool = PoolReady

NextReopen ==
    \/ \E pr \in Programs :
           \/ PairSaveSimple(pr)
           \/ PairConfirmCheckpoint(pr)
           \/ PairPreviewDelete(pr)
    \/ ConfirmDelete

SpecReopen == InitReopen /\ [][NextReopen]_vars

\* C36 as stated: when confirm_delete_transaction has removed the MENSAL
\* checkpoint of a period of a pair, the next confirm_cpm_checkpoint of tipo
\* MENSAL for that pair and period succeeds and inserts exactly one
\* checkpoint.
C36_ReopenSucceeds ==
    [][\A pr \in Programs :
          (/\ result.status = "confirm_delete_transaction"
           /\ result.programa = pr
           /\ <<"MENSAL", "2026-10">> \in result.chks_removidos
           /\ confirm_cpm_checkpoint(1, pr, "MENSAL", "2026-10")) =>
              /\ result'.status = "confirm_cpm_checkpoint"
              /\ \E c \in cpm_checkpoints' \ cpm_checkpoints :
                     /\ cpm_checkpoints' = cpm_checkpoints \cup {c}
                     /\ c.tipo = "MENSAL"
                     /\ c.programa_id = pr
                     /\ split_periodo(c.periodo_referencia) = <<2026, 10>>]_vars

\* C36, amended: after the removal the period is open again: the next MENSAL
\* confirmation for that pair and period is never rejected as AlreadyClosed;
\* it succeeds and inserts exactly one checkpoint when the pair still has
\* total units above zero, and returns NoData, writing nothing, when the
\* deletion has left the pair without units.
C36_ReopenSucceedsWithUnits ==
    [][\A pr \in Programs :
          (/\ result.status = "confirm_delete_transaction"
           /\ result.programa = pr
           /\ <<"MENSAL", "2026-10">> \in result.chks_removidos
           /\ confirm_cpm_checkpoint(1, pr, "MENSAL", "2026-10")) =>
              IF get_cpm_totals(1, pr).total_milhas > 0
              THEN /\ result'.status = "confirm_cpm_checkpoint"
                   /\ \E c \in cpm_checkpoints' \ cpm_checkpoints :
                          /\ cpm_checkpoints' = cpm_checkpoints \cup {c}
                          /\ c.tipo = "MENSAL"
                          /\ c.programa_id = pr
                          /\ split_periodo(c.periodo_referencia) = <<2026, 10>>
              ELSE /\ result'.status = "NoData"
                   /\ UNCHANGED store]_vars

\* The deletion of a purchase has removed the MENSAL checkpoint of October
\* 2026 of pair (1, 1), the pair still holds units, and the confirmation can
\* be made again.
C36_Witness ==
    /\ result.status = "confirm_delete_transaction"
    /\ result.programa = 1
    /\ <<"MENSAL", "2026-10">> \in result.chks_removidos
    /\ get_cpm_totals(1, 1).total_milhas > 0
    /\ CanInsert(1)

MaxCreditos == 14

\* milhas_garantidas_ciclo of the contract: multiples of 12 (1,000 a month),
\* and 1, 11, 13, 30, 100 and 10,000 units a year.
ContratoCicloIn == {12, 24, 12000, 1, 11, 13, 30, 100, 10000}

InitCiclo ==
    /\ transactions = {}
    /\ transaction_batches = {}
    /\ \E c \in ContratoCicloIn :
           subscriptions = {SubscriptionRow(1, 1, c * 2, c, 2000, MaxClock - MaxCreditos)}
    /\ cpm_checkpoints = {}
    /\ clock = MaxClock - MaxCreditos
    /\ tokens = {}
    /\ result = [status |-> "none", id |-> NULL, aviso_chk |-> FALSE]
    /\ pc = [p \in Procs |-> "idle"]
    /\ req = [p \in Procs |-> NoRequest]
    /\ pend = [p \in Procs |-> {}]
    /\ ret = [p \in Procs |-> "none"]
    /\ row_lock = NULL
    /\ db_pool = PoolReady

SpecCiclo == InitCiclo /\ [][PairMonthlyCredit(1)]_vars

\* C38: on a contract with no linked transaction, the first twelve calls of
\* process_monthly_credit with milhas_do_mes omitted all succeed, the twelfth
\* leaves the remaining balance at zero, and a thirteenth is blocked.
C38_TwelveDefaultCredits ==
    [][PairMonthlyCredit(1) =>
          LET feitos == Cardinality(transactions)
              sub == Latest(ActiveSubs(1, 1))
          IN IF feitos < 12
             THEN /\ result'.status = "process_monthly_credit"
                  /\ feitos = 11 =>
                         sub.milhas_garantidas_ciclo
                             - SumMilhas({t \in transactions' : t.subscription_id = sub.id}) = 0
             ELSE result'.status = "OvercreditBlocked"]_vars

(***************************************************************************)
(* Lock specification: two callers run process_monthly_credit on the same  *)
(* contract, one SQL statement at a time; any statement may raise.  The    *)
(* store runs every statement that can run; a caller waiting for the row   *)
(* lock gets it once it is free often enough (lock waiters are queued).    *)
(***************************************************************************)
\* process_monthly_credit: a statement raises; the connection block rolls
\* back, which releases the row lock, and the tool returns _sanitize_error's
\* message.
McFail(p) ==
    /\ pc[p] \in {"mc_select", "mc_sum", "mc_insert", "mc_commit"}
    /\ \E e \in StoreErrors, ref \in Refs :
           ret' = [ret EXCEPT ![p] = sanitize_error("process_monthly_credit", e, ref).status]
    /\ pend' = [pend EXCEPT ![p] = {}]
    /\ row_lock' = lock_released(p)
    /\ pc' = [pc EXCEPT ![p] = "idle"]
    /\ UNCHANGED <<store, clock, seqvars, req>>

SpecLock ==
    /\ InitSub
    /\ [][\E p \in Procs :
             \/ McBegin(p)
             \/ McSelect(p)
             \/ McSum(p)
             \/ McInsert(p)
             \/ McCommit(p)
             \/ McFail(p)]_vars
    /\ \A p \in Procs :
           /\ SF_vars(McSelect(p))
           /\ WF_vars(McSum(p))
           /\ WF_vars(McInsert(p))
           /\ WF_vars(McCommit(p))

\* C39: the row lock of the contract is held only by a caller inside
\* process_monthly_credit and is free whenever no call is past its SELECT
\* ... FOR UPDATE (commit, OvercreditBlocked and a store failure all release
\* it); and every call that has reached the SELECT eventually returns.
C39_LockReleased ==
    /\ [](\A p \in Procs :
             row_lock = p => pc[p] \in {"mc_sum", "mc_insert", "mc_commit"})
    /\ \A p \in Procs : (pc[p] = "mc_select") ~> (pc[p] = "idle")

\* One caller has returned OvercreditBlocked, the other a store failure, and
\* the lock is free.
C39_Witness ==
    /\ row_lock = NULL
    /\ \E p, q \in Procs :
           /\ ret[p] = "OvercreditBlocked"
           /\ ret[q] = "InternalError"

====
